---- MODULE Spec2Model ----
(***************************************************************************)
(* State-machine model of the FreshFruit ERP backend request handlers:     *)
(* order placement / status patch / discount update (orders route),       *)
(* inventory stock adjustment, purchase-order receiving and payment        *)
(* application.  Every handler runs inside one database transaction; in    *)
(* the specifications below requests do not overlap, so one action is one  *)
(* whole handler execution (BEGIN .. COMMIT or ROLLBACK).                  *)
(*                                                                         *)
(* Money is kept in cents and the inputs are chosen so that every division *)
(* the code performs (x * pct / 100) is exact.                             *)
(***************************************************************************)
EXTENDS Integers, Sequences, FiniteSets, TLC

VARIABLES products, orders, order_items, stock_movements,
          purchase_orders, purchase_order_items, payments, invoices, invoice_items,
          customers, txn, last, round

vars == <<products, orders, order_items, stock_movements,
          purchase_orders, purchase_order_items, payments, invoices, invoice_items,
          customers, txn, last, round>>

orderTables == <<orders, order_items>>
purchaseTables == <<purchase_orders, purchase_order_items>>
paymentTables == <<payments, invoices>>
\* What the handlers of orders, inventory, purchase orders and payments never
\* write: the customers table and the invoice items; and what a handler that
\* runs without overlap leaves alone: the transactions in flight.
others == <<customers, txn, invoice_items>>

\* ---------------------------------------------------------------- bounds
MaxOrders == 2
MaxItems == 2
MaxMovements == 3
MaxPurchaseOrders == 1
MaxPayments == 2
MaxInvoices == 1
MaxBalance == 50
MaxProducts == 3

\* ---------------------------------------------------------------- inputs
ProductIds == {1, 2}
CustomerIds == {1, 2}
Txns == {1, 2}
ReqProductIds == {1, 2, 3}
InitStocks == {1}
Quantities == {-1, 1, 2}
UnitPrices == {100}
Percentages == {0}
OrderStatuses == {"pending", "processing", "completed", "cancelled"}

ItemInputs == [product_id : ReqProductIds, quantity : Quantities, unit_price : UnitPrices]

\* ---------------------------------------------------------------- helpers
RECURSIVE SumQty(_, _)
SumQty(items, p) ==
  IF items = <<>> THEN 0
  ELSE (IF Head(items).product_id = p THEN Head(items).quantity ELSE 0) + SumQty(Tail(items), p)

RECURSIVE SumTotal(_)
SumTotal(items) ==
  IF items = <<>> THEN 0 ELSE Head(items).total + SumTotal(Tail(items))

RECURSIVE SelectSeq2(_, _)
SelectSeq2(s, id) ==
  IF s = <<>> THEN <<>>
  ELSE IF Head(s).order_id = id THEN <<Head(s)>> \o SelectSeq2(Tail(s), id)
       ELSE SelectSeq2(Tail(s), id)

OrderItemsOf(id) == SelectSeq2(order_items, id)

\* A connection that runs no transaction.
\* A connection of the pool with no request on it, and the local variables of
\* the handlers.  open: BEGIN has been issued on the connection and neither
\* COMMIT nor ROLLBACK since.
IdleTxn ==
  [pc |-> "idle", open |-> FALSE, kind |-> "none", id |-> 0, status |-> "none", prev |-> "none",
   items |-> <<>>, processed |-> <<>>, i |-> 0, discount_percentage |-> 0,
   orderNumber |-> 0, seen |-> <<>>, currentStock |-> 0, written |-> <<>>,
   order_id |-> 0, invoice_id |-> 0, amount |-> 0, currentlyPaid |-> 0, totalToPay |-> 0,
   result |-> "none"]

NoRequest == [op |-> "none", result |-> "none", id |-> 0, at |-> 0, prev |-> "none"]

Init ==
  /\ products \in {f \in [ProductIds -> [stock : InitStocks, price : {200},
                                          sku : ProductIds, deleted : {FALSE}]] :
                       \A p \in ProductIds : f[p].sku = p}
  /\ orders = <<>>
  /\ order_items = <<>>
  /\ stock_movements = <<>>
  /\ purchase_orders = <<>>
  /\ purchase_order_items = <<>>
  /\ payments = <<>>
  /\ invoices = <<>>
  /\ invoice_items = <<>>
  /\ customers = [c \in CustomerIds |-> [balance |-> 0, credit_limit |-> 0, deleted |-> FALSE]]
  /\ txn = [t \in Txns |-> IdleTxn]
  /\ last = NoRequest
  /\ round = [id |-> 0, stock |-> [p \in ProductIds |-> 0], touched |-> {}]

\* ------------------------------------------------- orders: POST /api/orders
\* generateOrderNumber: numeric part of the highest ORD-### plus one, 1 when
\* there is none.
RECURSIVE MaxOrderNumber(_)
MaxOrderNumber(os) ==
  IF os = <<>> THEN 0
  ELSE LET m == MaxOrderNumber(Tail(os))
       IN IF Head(os).order_number > m THEN Head(os).order_number ELSE m

generateOrderNumber(os) == IF os = <<>> THEN 1 ELSE MaxOrderNumber(os) + 1

\* parseFloat(item.unit_price) || parseFloat(product.price)
UnitPriceOf(item, product) == IF item.unit_price # 0 THEN item.unit_price ELSE product.price

\* Variant of the stock check that lets one unit too many through.
InsufficientStockOffByOne(product, quantity) == product.stock + 1 < quantity

\* if (parseFloat(product.stock) < quantity) throw
InsufficientStock(product, quantity) == product.stock < quantity

\* First loop of the handler: look every item up, check its stock against the
\* stock read at that moment, build processedItems.  The first failing item
\* throws; "at" is its position.
RECURSIVE ProcessItems(_, _, _, _)
ProcessItems(items, i, prods, acc) ==
  IF i > Len(items) THEN [err |-> "none", at |-> 0, processed |-> acc]
  ELSE LET item == items[i]
       IN IF item.product_id \notin DOMAIN prods
          THEN [err |-> "product_not_found", at |-> i, processed |-> acc]
          ELSE LET product == prods[item.product_id]
                   quantity == item.quantity
                   unitPrice == UnitPriceOf(item, product)
                   itemTotal == quantity * unitPrice
               IN IF InsufficientStock(product, quantity)
                  THEN [err |-> "insufficient_stock", at |-> i, processed |-> acc]
                  ELSE ProcessItems(items, i + 1, prods,
                         Append(acc, [product_id |-> item.product_id, quantity |-> quantity,
                                      unit_price |-> unitPrice, total |-> itemTotal]))

\* discountAmount = subtotal * discount_percentage / 100
DiscountAmount(subtotal, discount_percentage) == (subtotal * discount_percentage) \div 100

\* taxRate = 0; taxAmount = subtotalAfterDiscount * taxRate
TaxAmount(subtotalAfterDiscount) == subtotalAfterDiscount * 0

\* Variant of the total that forgets the discount.
OrderTotalNoDiscount(subtotal, discountAmount) == subtotal + TaxAmount(subtotal)

OrderTotal(subtotal, discountAmount) ==
  LET subtotalAfterDiscount == subtotal - discountAmount
  IN subtotalAfterDiscount + TaxAmount(subtotalAfterDiscount)

\* Variant of the decrement loop that subtracts from the stock read by the
\* first loop instead of re-reading it: the last line of a product wins.
RECURSIVE LastQuantity(_, _)
LastQuantity(items, p) ==
  IF items = <<>> THEN 0
  ELSE IF items[Len(items)].product_id = p THEN items[Len(items)].quantity
       ELSE LastQuantity(SubSeq(items, 1, Len(items) - 1), p)

DecrementStockStale(items, prods) ==
  [p \in DOMAIN prods |-> [prods[p] EXCEPT !.stock = @ - LastQuantity(items, p)]]

\* Second loop of the handler, stock part: for each processed item re-read the
\* product's stock inside the transaction and write stock - quantity.
RECURSIVE DecrementStock(_, _)
DecrementStock(items, prods) ==
  IF items = <<>> THEN prods
  ELSE LET item == Head(items)
           currentStock == prods[item.product_id].stock
           newStock == currentStock - item.quantity
       IN DecrementStock(Tail(items), [prods EXCEPT ![item.product_id].stock = newStock])

RECURSIVE OrderItemRows(_, _)
OrderItemRows(items, order_id) ==
  IF items = <<>> THEN <<>>
  ELSE <<[order_id |-> order_id, product_id |-> Head(items).product_id,
          quantity |-> Head(items).quantity, unit_price |-> Head(items).unit_price,
          total |-> Head(items).total]>> \o OrderItemRows(Tail(items), order_id)

\* Variant that logs the first item only.
MovementRowsFirstOnly(items, movement_type, reference_type, reference_id) ==
  IF items = <<>> THEN <<>>
  ELSE <<[product_id |-> Head(items).product_id, movement_type |-> movement_type,
          quantity |-> Head(items).quantity, reference_type |-> reference_type,
          reference_id |-> reference_id]>>

\* INSERT INTO stock_movements, once per item, with the item's quantity.
RECURSIVE MovementRows(_, _, _, _)
MovementRows(items, movement_type, reference_type, reference_id) ==
  IF items = <<>> THEN <<>>
  ELSE <<[product_id |-> Head(items).product_id, movement_type |-> movement_type,
          quantity |-> Head(items).quantity, reference_type |-> reference_type,
          reference_id |-> reference_id]>>
       \o MovementRows(Tail(items), movement_type, reference_type, reference_id)

\* customer_id is optional: 0 when the request has none.
PlaceOrderFor(customer_id, items, discount_percentage) ==
  /\ UNCHANGED <<purchaseTables, paymentTables, others>>
  /\ LET r == ProcessItems(items, 1, products, <<>>)
         orderNumber == generateOrderNumber(orders)
         subtotal == SumTotal(r.processed)
         discountAmount == DiscountAmount(subtotal, discount_percentage)
         id == Len(orders) + 1
     IN IF r.err # "none"
        THEN \* throw -> catch -> ROLLBACK (nothing has been written yet)
             /\ last' = [op |-> "place", result |-> r.err, id |-> 0, at |-> r.at, prev |-> "none"]
             /\ UNCHANGED <<products, orders, order_items, stock_movements>>
        ELSE /\ Len(orders) < MaxOrders
             /\ orders' = Append(orders,
                   [customer_id |-> customer_id,
                    order_number |-> orderNumber, subtotal |-> subtotal,
                    tax_amount |-> TaxAmount(subtotal - discountAmount),
                    discount_amount |-> discountAmount,
                    discount_percentage |-> discount_percentage,
                    total |-> OrderTotal(subtotal, discountAmount),
                    status |-> "pending", payment_status |-> "pending"])
             /\ order_items' = order_items \o OrderItemRows(r.processed, id)
             /\ products' = DecrementStock(r.processed, products)
             /\ stock_movements' = stock_movements \o MovementRows(r.processed, "out", "sale", id)
             /\ last' = [op |-> "place", result |-> "created", id |-> id, at |-> 0, prev |-> "none"]

\* A placement without customer_id.
PlaceOrder(items, discount_percentage) == PlaceOrderFor(0, items, discount_percentage)

\* ------------------------------------- orders: PATCH /api/orders/:id/status
\* Cancellation branch: for every order item re-read the stock and write
\* stock + quantity.
\* Variant of the restore loop that adds to the stock read before the loop:
\* only the last line of a product is restored.
RestoreStockStale(items, prods) ==
  [p \in DOMAIN prods |-> [prods[p] EXCEPT !.stock = @ + LastQuantity(items, p)]]

RECURSIVE RestoreStock(_, _)
RestoreStock(items, prods) ==
  IF items = <<>> THEN prods
  ELSE LET item == Head(items)
           currentStock == prods[item.product_id].stock
           newStock == currentStock + item.quantity
       IN RestoreStock(Tail(items), [prods EXCEPT ![item.product_id].stock = newStock])

\* Variants with one of the two guards missing.
TransitionRejectedCancelledOnly(currentStatus, status) ==
  currentStatus = "cancelled" /\ status # "cancelled"

TransitionRejectedCompletedOnly(currentStatus, status) ==
  currentStatus = "completed" /\ status # "completed"

\* The two terminal-state guards of the handler.
TransitionRejected(currentStatus, status) ==
  \/ currentStatus = "cancelled" /\ status # "cancelled"
  \/ currentStatus = "completed" /\ status # "completed"

PatchOrderStatus(id, status) ==
  /\ UNCHANGED <<purchaseTables, paymentTables, others>>
  /\ IF id \notin 1..Len(orders)
     THEN \* 404
          /\ last' = [op |-> "patch_status", result |-> "order_not_found", id |-> id, at |-> 0, prev |-> "none"]
          /\ UNCHANGED <<products, orders, order_items, stock_movements>>
     ELSE LET currentStatus == orders[id].status
              orderItems == OrderItemsOf(id)
          IN IF TransitionRejected(currentStatus, status)
             THEN \* 400
                  /\ last' = [op |-> "patch_status", result |-> "invalid_transition",
                              id |-> id, at |-> 0, prev |-> "none"]
                  /\ UNCHANGED <<products, orders, order_items, stock_movements>>
             ELSE /\ IF status = "cancelled" /\ currentStatus # "cancelled"
                     THEN /\ products' = RestoreStock(orderItems, products)
                          /\ stock_movements' =
                               stock_movements \o MovementRows(orderItems, "in", "return", id)
                     ELSE UNCHANGED <<products, stock_movements>>
                  /\ orders' = [orders EXCEPT ![id].status = status]
                  /\ last' = [op |-> "patch_status", result |-> "updated", id |-> id, at |-> 0,
                              prev |-> currentStatus]
                  /\ UNCHANGED order_items

\* ---------------------------------------------- orders: PUT /api/orders/:id
UpdateOrder(id, hasDiscount, discount_percentage) ==
  /\ UNCHANGED <<purchaseTables, paymentTables, others>>
  /\ IF id \notin 1..Len(orders)
     THEN /\ last' = [op |-> "update_order", result |-> "order_not_found", id |-> id, at |-> 0, prev |-> "none"]
          /\ UNCHANGED <<products, orders, order_items, stock_movements>>
     ELSE LET order == orders[id]
              subtotal == order.subtotal
              discountAmount == DiscountAmount(subtotal, discount_percentage)
          IN /\ orders' =
                  IF hasDiscount
                  THEN [orders EXCEPT ![id].discount_percentage = discount_percentage,
                                      ![id].discount_amount = discountAmount,
                                      ![id].tax_amount = TaxAmount(subtotal - discountAmount),
                                      ![id].total = OrderTotal(subtotal, discountAmount)]
                  ELSE orders
             /\ last' = [op |-> "update_order", result |-> "updated", id |-> id, at |-> 0, prev |-> "none"]
             /\ UNCHANGED <<products, order_items, stock_movements>>

\* ------------------------ inventory: PATCH /api/inventory/products/:id/stock
Abs(x) == IF x < 0 THEN -x ELSE x

AdjustedStock(currentStock, adjustment, type) ==
  IF type \in {"adjustment", "purchase", "return"} THEN currentStock + adjustment
  ELSE IF type \in {"sale", "loss"} THEN currentStock - Abs(adjustment)
  ELSE currentStock + adjustment

AdjustStock(id, quantity, type) ==
  /\ Len(stock_movements) < MaxMovements
  /\ UNCHANGED <<orderTables, purchaseTables, paymentTables, others>>
  /\ IF id \notin DOMAIN products
     THEN /\ last' = [op |-> "adjust_stock", result |-> "product_not_found", id |-> id, at |-> 0, prev |-> "none"]
          /\ UNCHANGED <<products, stock_movements>>
     ELSE LET currentStock == products[id].stock
              adjustment == quantity
              newStock == AdjustedStock(currentStock, adjustment, type)
          IN IF newStock < 0
             THEN /\ last' = [op |-> "adjust_stock", result |-> "insufficient_stock",
                              id |-> id, at |-> 0, prev |-> "none"]
                  /\ UNCHANGED <<products, stock_movements>>
             ELSE /\ products' = [products EXCEPT ![id].stock = newStock]
                  /\ stock_movements' = Append(stock_movements,
                        [product_id |-> id, movement_type |-> type, quantity |-> adjustment,
                         reference_type |-> "none", reference_id |-> 0])
                  /\ last' = [op |-> "adjust_stock", result |-> "updated", id |-> id, at |-> 0, prev |-> "none"]

\* --------------------------------- purchase orders: POST /api/purchase-orders
RECURSIVE PurchaseItemRows(_, _)
PurchaseItemRows(items, purchase_order_id) ==
  IF items = <<>> THEN <<>>
  ELSE <<[purchase_order_id |-> purchase_order_id, product_id |-> Head(items).product_id,
          quantity |-> Head(items).quantity, received_quantity |-> 0]>>
       \o PurchaseItemRows(Tail(items), purchase_order_id)

CreatePurchaseOrder(items) ==
  /\ Len(purchase_orders) < MaxPurchaseOrders
  /\ UNCHANGED <<products, stock_movements, orderTables, paymentTables, others>>
  /\ LET id == Len(purchase_orders) + 1
     IN IF \E i \in 1..Len(items) : items[i].product_id \notin DOMAIN products
        THEN \* throw -> ROLLBACK undoes the purchase order row and the items so far
             /\ last' = [op |-> "create_po", result |-> "product_not_found", id |-> 0, at |-> 0, prev |-> "none"]
             /\ UNCHANGED purchaseTables
        ELSE /\ purchase_orders' = Append(purchase_orders, [status |-> "pending"])
             /\ purchase_order_items' = purchase_order_items \o PurchaseItemRows(items, id)
             /\ last' = [op |-> "create_po", result |-> "created", id |-> id, at |-> 0, prev |-> "none"]

\* ----------------------- purchase orders: PATCH /api/purchase-orders/:id/status
RECURSIVE SelectPurchaseItems(_, _)
SelectPurchaseItems(s, id) ==
  IF s = <<>> THEN <<>>
  ELSE IF Head(s).purchase_order_id = id THEN <<Head(s)>> \o SelectPurchaseItems(Tail(s), id)
       ELSE SelectPurchaseItems(Tail(s), id)

\* Variant of the receiving loop that adds to the stock read before the loop:
\* only the last line of a product is credited.
ReceiveStockStale(items, prods) ==
  [p \in DOMAIN prods |-> [prods[p] EXCEPT !.stock = @ + LastQuantity(items, p)]]

\* for each item: stock = stock read now + item.quantity
RECURSIVE ReceiveStock(_, _)
ReceiveStock(items, prods) ==
  IF items = <<>> THEN prods
  ELSE LET item == Head(items)
           currentStock == prods[item.product_id].stock
           newStock == currentStock + item.quantity
       IN ReceiveStock(Tail(items), [prods EXCEPT ![item.product_id].stock = newStock])

\* UPDATE purchase_order_items SET received_quantity = quantity
\*   WHERE purchase_order_id = $1 AND product_id = $2, once per item
MarkReceived(rows, id) ==
  [i \in 1..Len(rows) |->
     IF rows[i].purchase_order_id = id
     THEN [rows[i] EXCEPT !.received_quantity = rows[i].quantity]
     ELSE rows[i]]

\* Variant without the test of the stored status.
MarkingAsReceivedUnguarded(status, currentStatus) == status = "received"

\* if (status === 'received' && currentOrder.status !== 'received')
MarkingAsReceived(status, currentStatus) ==
  status = "received" /\ currentStatus # "received"

PatchPurchaseOrderStatus(id, status) ==
  /\ UNCHANGED <<orderTables, paymentTables, others>>
  /\ IF id \notin 1..Len(purchase_orders)
     THEN /\ last' = [op |-> "patch_po_status", result |-> "po_not_found", id |-> id, at |-> 0, prev |-> "none"]
          /\ UNCHANGED <<products, stock_movements, purchaseTables>>
     ELSE LET currentOrder == purchase_orders[id]
              orderItems == SelectPurchaseItems(purchase_order_items, id)
          IN /\ IF MarkingAsReceived(status, currentOrder.status)
                THEN /\ Len(stock_movements) + Len(orderItems) <= MaxMovements
                     /\ products' = ReceiveStock(orderItems, products)
                     /\ purchase_order_items' = MarkReceived(purchase_order_items, id)
                     /\ stock_movements' =
                          stock_movements \o MovementRows(orderItems, "in", "purchase", id)
                ELSE UNCHANGED <<products, stock_movements, purchase_order_items>>
             /\ purchase_orders' = [purchase_orders EXCEPT ![id].status = status]
             /\ last' = [op |-> "patch_po_status", result |-> "updated", id |-> id, at |-> 0,
                         prev |-> currentOrder.status]

\* --------------------------------------- billing: POST /api/billing/invoices
\* total is required (!total rejects 0); paid_amount || 0; status defaults to
\* 'pending'.
RECURSIVE InvoiceItemRows(_, _)
InvoiceItemRows(items, invoice_id) ==
  IF items = <<>> THEN <<>>
  ELSE <<[invoice_id |-> invoice_id, product_id |-> Head(items).product_id,
          quantity |-> Head(items).quantity, unit_price |-> Head(items).unit_price]>>
       \o InvoiceItemRows(Tail(items), invoice_id)

\* items is optional: <<>> when the request has none.
CreateInvoiceWith(customer_id, total, paid_amount, status, items) ==
  /\ Len(invoices) < MaxInvoices
  /\ UNCHANGED <<products, stock_movements, orderTables, purchaseTables, payments,
                 customers, txn>>
  /\ IF customer_id = 0 \/ total = 0
     THEN /\ last' = [op |-> "create_invoice", result |-> "missing_fields", id |-> 0, at |-> 0,
                      prev |-> "none"]
          /\ UNCHANGED <<invoices, invoice_items>>
     ELSE /\ invoices' = Append(invoices,
                [customer_id |-> customer_id, total |-> total,
                 paid_amount |-> paid_amount, status |-> status])
          /\ invoice_items' = invoice_items \o InvoiceItemRows(items, Len(invoices) + 1)
          /\ last' = [op |-> "create_invoice", result |-> "created",
                      id |-> Len(invoices) + 1, at |-> 0, prev |-> "none"]

\* An invoice without items.
CreateInvoiceFor(customer_id, total, paid_amount, status) ==
  CreateInvoiceWith(customer_id, total, paid_amount, status, <<>>)

\* ------------------------------------ billing: PUT /api/billing/invoices/:id
\* SELECT ... FROM invoice_items WHERE invoice_id = id
RECURSIVE SelectInvoiceItems(_, _)
SelectInvoiceItems(s, id) ==
  IF s = <<>> THEN <<>>
  ELSE IF Head(s).invoice_id = id THEN <<Head(s)>> \o SelectInvoiceItems(Tail(s), id)
       ELSE SelectInvoiceItems(Tail(s), id)

\* DELETE FROM invoice_items WHERE invoice_id = id
RECURSIVE DeleteInvoiceItems(_, _)
DeleteInvoiceItems(s, id) ==
  IF s = <<>> THEN <<>>
  ELSE IF Head(s).invoice_id = id THEN DeleteInvoiceItems(Tail(s), id)
       ELSE <<Head(s)>> \o DeleteInvoiceItems(Tail(s), id)

\* if (items && items.length > 0): hasItems says whether the body carries an
\* items list at all.
ReplacesItems(hasItems, items) == hasItems /\ Len(items) > 0

\* The UPDATE writes every column from the body: customer_id, status,
\* paid_amount || 0, total || total_amount || 0.
PutInvoice(id, customer_id, status, paid_amount, total, hasItems, items) ==
  /\ UNCHANGED <<products, stock_movements, orderTables, purchaseTables, payments,
                 customers, txn>>
  /\ IF id \notin 1..Len(invoices)
     THEN /\ last' = [op |-> "update_invoice", result |-> "invoice_not_found", id |-> id,
                      at |-> 0, prev |-> "none"]
          /\ UNCHANGED <<invoices, invoice_items>>
     ELSE /\ invoices' = [invoices EXCEPT ![id] =
                [customer_id |-> customer_id, total |-> total,
                 paid_amount |-> paid_amount, status |-> status]]
          /\ invoice_items' =
               IF ReplacesItems(hasItems, items)
               THEN DeleteInvoiceItems(invoice_items, id) \o InvoiceItemRows(items, id)
               ELSE invoice_items
          /\ last' = [op |-> "update_invoice", result |-> "updated", id |-> id,
                      at |-> 0, prev |-> "none"]

\* An invoice of customer 1.
CreateInvoice(total, paid_amount, status) == CreateInvoiceFor(1, total, paid_amount, status)

\* ------------------------------------------------ payments: POST /api/payments
\* A null id is 0.
\* SELECT COALESCE(SUM(amount), 0) FROM payments WHERE order_id = $1 AND status = 'completed'
RECURSIVE PaidForOrder(_, _)
PaidForOrder(ps, order_id) ==
  IF ps = <<>> THEN 0
  ELSE (IF Head(ps).order_id = order_id /\ Head(ps).status = "completed"
        THEN Head(ps).amount ELSE 0) + PaidForOrder(Tail(ps), order_id)

\* SELECT COALESCE(SUM(amount), 0) FROM payments WHERE invoice_id = $1 AND status = 'completed'
RECURSIVE PaidForInvoice(_, _)
PaidForInvoice(ps, invoice_id) ==
  IF ps = <<>> THEN 0
  ELSE (IF Head(ps).invoice_id = invoice_id /\ Head(ps).status = "completed"
        THEN Head(ps).amount ELSE 0) + PaidForInvoice(Tail(ps), invoice_id)

\* Variant of the overpayment check with a tolerance of 100 cents.
ExceedsTotalTolerant(newTotalPaid, totalToPay) == newTotalPaid > totalToPay + 100

\* if (newTotalPaid > totalToPay) reject
ExceedsTotal(newTotalPaid, totalToPay) == newTotalPaid > totalToPay

PaymentStatusFor(totalPaid, total) ==
  IF totalPaid >= total THEN "paid"
  ELSE IF totalPaid > 0 THEN "partial"
  ELSE "pending"

\* Variant that marks an invoice paid only when it is overpaid.
InvoiceStatusOverpaidOnly(newTotalPaid, totalToPay) ==
  IF newTotalPaid > totalToPay THEN "paid" ELSE "pending"

InvoiceStatusFor(newTotalPaid, totalToPay) ==
  IF newTotalPaid >= totalToPay THEN "paid" ELSE "pending"

PaymentRejected(result) ==
  /\ last' = [op |-> "create_payment", result |-> result, id |-> 0, at |-> 0, prev |-> "none"]
  /\ UNCHANGED <<payments, invoices, orders>>

\* Variant that requires exactly one of the two ids.
MissingFieldsExactlyOne(order_id, invoice_id, amount, payment_method) ==
  ((order_id = 0) = (invoice_id = 0)) \/ amount = 0 \/ ~payment_method

\* if ((!order_id && !invoice_id) || !amount || !payment_method) reject
MissingFields(order_id, invoice_id, amount, payment_method) ==
  (order_id = 0 /\ invoice_id = 0) \/ amount = 0 \/ ~payment_method

\* customer_id is optional (0) and defaults to the customer of the invoice or
\* of the order.
CreatePaymentFor(customer_id, order_id, invoice_id, amount, payment_method) ==
  /\ UNCHANGED <<products, stock_movements, order_items, purchaseTables, others>>
  /\ IF MissingFields(order_id, invoice_id, amount, payment_method)
     THEN PaymentRejected("missing_fields")
     ELSE IF amount <= 0
     THEN PaymentRejected("amount_not_positive")
     ELSE IF invoice_id # 0 /\ invoice_id \notin 1..Len(invoices)
     THEN PaymentRejected("invoice_not_found")
     ELSE IF invoice_id = 0 /\ order_id \notin 1..Len(orders)
     THEN PaymentRejected("order_not_found")
     ELSE LET finalOrderId == order_id
              linkedCustomerId == IF invoice_id # 0 THEN invoices[invoice_id].customer_id
                                  ELSE orders[order_id].customer_id
              finalCustomerId == IF customer_id # 0 THEN customer_id ELSE linkedCustomerId
              totalToPay == IF invoice_id # 0 THEN invoices[invoice_id].total
                            ELSE orders[order_id].total
              currentlyPaid == IF invoice_id # 0 THEN PaidForInvoice(payments, invoice_id)
                               ELSE PaidForOrder(payments, order_id)
              newTotalPaid == currentlyPaid + amount
          IN IF ExceedsTotal(newTotalPaid, totalToPay)
             THEN PaymentRejected("exceeds_balance")
             ELSE IF finalOrderId # 0 /\ finalOrderId \notin 1..Len(orders)
             THEN \* the insert violates payments.order_id -> orders(id): catch, ROLLBACK
                  PaymentRejected("error")
             ELSE /\ Len(payments) < MaxPayments
                  /\ payments' = Append(payments,
                        [order_id |-> finalOrderId, invoice_id |-> invoice_id,
                         customer_id |-> finalCustomerId,
                         amount |-> amount, status |-> "completed"])
                  /\ invoices' =
                       IF invoice_id # 0
                       THEN [invoices EXCEPT
                               ![invoice_id].paid_amount = newTotalPaid,
                               ![invoice_id].status = InvoiceStatusFor(newTotalPaid, totalToPay)]
                       ELSE invoices
                  /\ orders' =
                       IF finalOrderId # 0
                       THEN [orders EXCEPT ![finalOrderId].payment_status =
                                             PaymentStatusFor(newTotalPaid, totalToPay)]
                       ELSE orders
                  /\ last' = [op |-> "create_payment", result |-> "created",
                              id |-> Len(payments) + 1, at |-> 0, prev |-> "none"]

\* A payment without customer_id.
CreatePayment(order_id, invoice_id, amount, payment_method) ==
  CreatePaymentFor(0, order_id, invoice_id, amount, payment_method)

\* Re-summation used by the payment update and delete handlers.
RecomputeOrder(os, ps, order_id) ==
  IF order_id # 0
  THEN [os EXCEPT ![order_id].payment_status =
                    PaymentStatusFor(PaidForOrder(ps, order_id), os[order_id].total)]
  ELSE os

\* --------------------------------------------- payments: PUT /api/payments/:id
\* hasOther: one of payment_method, payment_date, reference_number, notes is
\* supplied.  The payment id names the id-th row of the table.
UpdatePayment(id, hasAmount, amount, hasStatus, status, hasOther) ==
  /\ UNCHANGED <<products, stock_movements, order_items, purchaseTables, invoices, others>>
  /\ IF id \notin 1..Len(payments)
     THEN /\ last' = [op |-> "update_payment", result |-> "payment_not_found", id |-> id, at |-> 0, prev |-> "none"]
          /\ UNCHANGED <<payments, orders>>
     ELSE IF ~hasAmount /\ ~hasStatus /\ ~hasOther
     THEN /\ last' = [op |-> "update_payment", result |-> "no_fields", id |-> id, at |-> 0, prev |-> "none"]
          /\ UNCHANGED <<payments, orders>>
     ELSE LET currentPayment == payments[id]
              updated == [currentPayment EXCEPT
                            !.amount = IF hasAmount THEN amount ELSE @,
                            !.status = IF hasStatus THEN status ELSE @]
              ps == [payments EXCEPT ![id] = updated]
          IN /\ payments' = ps
             /\ orders' = RecomputeOrder(orders, ps, currentPayment.order_id)
             /\ last' = [op |-> "update_payment", result |-> "updated", id |-> id, at |-> 0, prev |-> "none"]

\* ------------------------------------------ payments: DELETE /api/payments/:id
RemoveAt(s, i) == SubSeq(s, 1, i - 1) \o SubSeq(s, i + 1, Len(s))

DeletePayment(id) ==
  /\ UNCHANGED <<products, stock_movements, order_items, purchaseTables, invoices, others>>
  /\ IF id \notin 1..Len(payments)
     THEN /\ last' = [op |-> "delete_payment", result |-> "payment_not_found", id |-> id, at |-> 0, prev |-> "none"]
          /\ UNCHANGED <<payments, orders>>
     ELSE LET payment == payments[id]
              ps == RemoveAt(payments, id)
          IN /\ payments' = ps
             /\ orders' = RecomputeOrder(orders, ps, payment.order_id)
             /\ last' = [op |-> "delete_payment", result |-> "deleted", id |-> id, at |-> 0, prev |-> "none"]

\* ------------------------------------------- customers: GET /api/customers
\* (SELECT COALESCE(SUM(total), 0) FROM orders WHERE customer_id = c.id)
RECURSIVE TotalSpent(_, _)
TotalSpent(os, c) ==
  IF os = <<>> THEN 0
  ELSE (IF Head(os).customer_id = c THEN Head(os).total ELSE 0) + TotalSpent(Tail(os), c)

\* (SELECT COALESCE(SUM(amount), 0) FROM payments
\*    WHERE customer_id = c.id AND status = 'completed')
RECURSIVE TotalPaid(_, _)
TotalPaid(ps, c) ==
  IF ps = <<>> THEN 0
  ELSE (IF Head(ps).customer_id = c /\ Head(ps).status = "completed"
        THEN Head(ps).amount ELSE 0) + TotalPaid(Tail(ps), c)

\* balance: totalSpent - totalPaid of the list row of customer c
ListBalance(c) == TotalSpent(orders, c) - TotalPaid(payments, c)

\* ------------------------------- customers: GET /api/customers/:id/account
\* A request without start_date: calculatedBalance = totalSales - totalPaid
\* over the orders and the completed payments of the customer.
AccountBalance(c) == TotalSpent(orders, c) - TotalPaid(payments, c)

\* ------------------------------------- customers: PUT /api/customers/:id
\* Variant whose SET clause also resets balance.
UpdatedCustomerResettingBalance(customer, credit_limit) ==
  [customer EXCEPT !.credit_limit = credit_limit, !.balance = 0]

\* SET name, email, phone, address, type, credit_limit, status
UpdatedCustomer(customer, credit_limit) == [customer EXCEPT !.credit_limit = credit_limit]

UpdateCustomer(id, credit_limit) ==
  /\ UNCHANGED <<products, stock_movements, orderTables, purchaseTables, paymentTables, txn, invoice_items>>
  /\ IF id \notin DOMAIN customers
     THEN /\ last' = [op |-> "update_customer", result |-> "customer_not_found", id |-> id,
                      at |-> 0, prev |-> "none"]
          /\ UNCHANGED customers
     ELSE /\ customers' = [customers EXCEPT ![id] = UpdatedCustomer(@, credit_limit)]
          /\ last' = [op |-> "update_customer", result |-> "updated", id |-> id,
                      at |-> 0, prev |-> "none"]

\* ------------------------------ customers: PATCH /api/customers/:id/balance
NewBalance(currentBalance, amount, operation) ==
  IF operation = "add" THEN currentBalance + amount
  ELSE IF operation = "subtract" THEN currentBalance - amount
  ELSE amount

AdjustBalance(id, amount, operation) ==
  /\ UNCHANGED <<products, stock_movements, orderTables, purchaseTables, paymentTables, txn, invoice_items>>
  /\ IF id \notin DOMAIN customers
     THEN /\ last' = [op |-> "adjust_balance", result |-> "customer_not_found", id |-> id,
                      at |-> 0, prev |-> "none"]
          /\ UNCHANGED customers
     ELSE LET newBalance == NewBalance(customers[id].balance, amount, operation)
          IN /\ Abs(newBalance) <= MaxBalance
             /\ customers' = [customers EXCEPT ![id].balance = newBalance]
             /\ last' = [op |-> "adjust_balance", result |-> "updated", id |-> id,
                         at |-> 0, prev |-> "none"]

\* ------------------------------- inventory: POST /api/inventory/products
\* A sku is a positive number; 0 is a body without sku.
\* SELECT id FROM products WHERE sku = $1 [AND id != $2]: the rest of the
\* query text, AND deleted_at IS NULL, is behind an SQL comment.  id is 0 in
\* the creation, where no row is excluded.
SkuHolders(prods, sku, id) == {p \in DOMAIN prods : prods[p].sku = sku /\ p # id}

CreateProduct(sku, price) ==
  /\ UNCHANGED <<stock_movements, orderTables, purchaseTables, paymentTables, others>>
  /\ IF sku # 0 /\ SkuHolders(products, sku, 0) # {}
     THEN /\ last' = [op |-> "create_product", result |-> "duplicate_sku", id |-> 0,
                      at |-> 0, prev |-> "none"]
          /\ UNCHANGED products
     ELSE LET id == Cardinality(DOMAIN products) + 1
          IN /\ id <= MaxProducts
             /\ products' = (id :> [stock |-> 0, price |-> price, sku |-> sku,
                                    deleted |-> FALSE]) @@ products
             /\ last' = [op |-> "create_product", result |-> "created", id |-> id,
                         at |-> 0, prev |-> "none"]

\* -------------------------- inventory: PUT /api/inventory/products/:id
\* Only the fields of the body are written; here the sku.
UpdateProduct(id, sku) ==
  /\ UNCHANGED <<stock_movements, orderTables, purchaseTables, paymentTables, others>>
  /\ IF id \notin DOMAIN products
     THEN /\ last' = [op |-> "update_product", result |-> "product_not_found", id |-> id,
                      at |-> 0, prev |-> "none"]
          /\ UNCHANGED products
     ELSE IF sku # 0 /\ SkuHolders(products, sku, id) # {}
     THEN /\ last' = [op |-> "update_product", result |-> "duplicate_sku", id |-> id,
                      at |-> 0, prev |-> "none"]
          /\ UNCHANGED products
     ELSE /\ products' = IF sku # 0 THEN [products EXCEPT ![id].sku = sku] ELSE products
          /\ last' = [op |-> "update_product", result |-> "updated", id |-> id,
                      at |-> 0, prev |-> "none"]

\* ----------------------- inventory: DELETE /api/inventory/products/:id
\* COUNT of the product's order items in orders that are pending or processing
RECURSIVE ActiveOrderItems(_, _)
ActiveOrderItems(rows, id) ==
  IF rows = <<>> THEN 0
  ELSE (IF Head(rows).product_id = id
           /\ orders[Head(rows).order_id].status \in {"pending", "processing"}
        THEN 1 ELSE 0) + ActiveOrderItems(Tail(rows), id)

DeleteProduct(id) ==
  /\ UNCHANGED <<stock_movements, orderTables, purchaseTables, paymentTables, others>>
  /\ IF id \notin DOMAIN products
     THEN /\ last' = [op |-> "delete_product", result |-> "product_not_found", id |-> id,
                      at |-> 0, prev |-> "none"]
          /\ UNCHANGED products
     ELSE IF ActiveOrderItems(order_items, id) > 0
     THEN /\ last' = [op |-> "delete_product", result |-> "active_orders", id |-> id,
                      at |-> 0, prev |-> "none"]
          /\ UNCHANGED products
     ELSE /\ products' = [products EXCEPT ![id].deleted = TRUE]
          /\ last' = [op |-> "delete_product", result |-> "deleted", id |-> id,
                      at |-> 0, prev |-> "none"]

\* ---------------------------------- customers: DELETE /api/customers/:id
\* COUNT(o.id) over the customer's orders with status IN ('pending', 'processing')
RECURSIVE PendingOrders(_, _)
PendingOrders(os, c) ==
  IF os = <<>> THEN 0
  ELSE (IF Head(os).customer_id = c /\ Head(os).status \in {"pending", "processing"}
        THEN 1 ELSE 0) + PendingOrders(Tail(os), c)

\* The two refusals: pending_orders > 0, and the balance column of the
\* customers row different from 0.
DeleteRefused(pending_orders, balance) ==
  IF pending_orders > 0 THEN "pending_orders"
  ELSE IF balance # 0 THEN "outstanding_balance"
  ELSE "none"

\* Soft delete: UPDATE customers SET deleted_at = CURRENT_TIMESTAMP.  The
\* existence check does not look at deleted_at.
DeleteCustomer(id) ==
  /\ UNCHANGED <<products, stock_movements, orderTables, purchaseTables, paymentTables, txn, invoice_items>>
  /\ IF id \notin DOMAIN customers
     THEN /\ last' = [op |-> "delete_customer", result |-> "customer_not_found", id |-> id,
                      at |-> 0, prev |-> "none"]
          /\ UNCHANGED customers
     ELSE LET pending_orders == PendingOrders(orders, id)
              balance == customers[id].balance
              refused == DeleteRefused(pending_orders, balance)
          IN IF refused # "none"
             THEN /\ last' = [op |-> "delete_customer", result |-> refused, id |-> id,
                              at |-> 0, prev |-> "none"]
                  /\ UNCHANGED customers
             ELSE /\ customers' = [customers EXCEPT ![id].deleted = TRUE]
                  /\ last' = [op |-> "delete_customer", result |-> "deleted", id |-> id,
                              at |-> 0, prev |-> "none"]

\* ------------------------------------------------------------ specification
\* History of the most recent placement, kept beside the program state: the
\* order it created, every product's stock just before it, and the products
\* some other request has written since.  last records the most recent request
\* and its outcome.
Track ==
  round' =
    IF Len(orders') > Len(orders)
    THEN [id |-> Len(orders'), stock |-> [p \in ProductIds |-> products[p].stock],
          touched |-> {}]
    ELSE IF last'.op = "patch_status" /\ last'.id = round.id
    THEN round
    ELSE [round EXCEPT !.touched = @ \cup {p \in ProductIds : products'[p] # products[p]}]

\* Request bodies: one line of positive quantity for an existing or a missing
\* product; two lines, the first in stock, the second the same product again,
\* the other product, more than the stock, a missing product or a negative
\* quantity; three lines closing with a repeated product, a shortage or a
\* missing product.
Item(p, q) == [product_id |-> p, quantity |-> q, unit_price |-> 100]
OrderBodies ==
  {<<Item(p, q)>> : p \in ProductIds, q \in {1, 2}}
  \cup {<<Item(3, 1)>>}
  \cup {<<Item(1, 1), item>> : item \in {i \in ItemInputs : i.quantity > 0} \cup {Item(2, -1)}}
  \cup {<<Item(1, 1), Item(2, 1), item>> : item \in {Item(1, 1), Item(2, 2), Item(3, 1)}}
ItemLists == {items \in OrderBodies : Len(items) <= MaxItems}
OrderIdInputs == 1..(MaxOrders + 1)

\* Orders and stock.
Next ==
  \/ \E items \in ItemLists, pct \in Percentages : PlaceOrder(items, pct) /\ Track
  \/ \E id \in OrderIdInputs, status \in OrderStatuses : PatchOrderStatus(id, status) /\ Track

Spec == Init /\ [][Next]_vars

\* Every writer of products.stock.
StockItemLists == {items \in ItemLists : \A i \in 1..Len(items) : items[i].product_id = 1}
PurchaseItemLists == {<<[product_id |-> p, quantity |-> q]>> : p \in {1, 3}, q \in {-1, 2}}
AdjustTypes == {"adjustment", "loss"}
PurchaseStatuses == {"pending", "received"}

NextStock ==
  \/ \E items \in StockItemLists : PlaceOrder(items, 0) /\ Track
  \/ \E id \in OrderIdInputs, status \in {"processing", "cancelled"} :
       PatchOrderStatus(id, status) /\ Track
  \/ \E id \in {1, 3}, quantity \in {-1, 1}, type \in AdjustTypes :
       AdjustStock(id, quantity, type) /\ Track
  \/ \E items \in PurchaseItemLists : CreatePurchaseOrder(items) /\ Track
  \/ \E id \in 1..(MaxPurchaseOrders + 1), status \in PurchaseStatuses :
       PatchPurchaseOrderStatus(id, status) /\ Track

SpecStock == Init /\ [][NextStock]_vars

\* Purchase orders: creation, every status patch the validator accepts, and
\* manual stock adjustments in between.
PurchaseItem(p, q) == [product_id |-> p, quantity |-> q]
PurchaseBodies ==
  {<<PurchaseItem(1, 2)>>, <<PurchaseItem(2, -1)>>, <<PurchaseItem(3, 1)>>,
   <<PurchaseItem(1, 1), PurchaseItem(1, 1)>>, <<PurchaseItem(1, 1), PurchaseItem(2, 2)>>,
   <<PurchaseItem(1, 1), PurchaseItem(2, 1), PurchaseItem(1, 2)>>}
PurchaseOrderStatuses == {"pending", "confirmed", "received", "cancelled"}

PurchaseRequest ==
  \E items \in {b \in PurchaseBodies : Len(b) <= MaxItems} : CreatePurchaseOrder(items) /\ Track
PurchaseStatusRequest ==
  \E id \in 1..(MaxPurchaseOrders + 1), status \in PurchaseOrderStatuses :
    PatchPurchaseOrderStatus(id, status) /\ Track
AdjustRequest == \E quantity \in {-1, 1} : AdjustStock(1, quantity, "adjustment") /\ Track

NextPurchase ==
  \/ PurchaseRequest
  \/ PurchaseStatusRequest
  \/ AdjustRequest

SpecPurchase == Init /\ [][NextPurchase]_vars

\* Customers: orders and payments of two customers, the customer profile and
\* the manual balance adjustment.  An order costs 200.
CustomerOrderRequest ==
  \E c \in CustomerIds :
    PlaceOrderFor(c, <<[product_id |-> 1, quantity |-> 1, unit_price |-> 200]>>, 0) /\ Track
CustomerOrderStatusRequest ==
  \E status \in {"completed", "cancelled"} : PatchOrderStatus(1, status) /\ Track
CustomerDiscountRequest == UpdateOrder(1, TRUE, 50) /\ Track
CustomerPaymentRequest ==
  \E c \in {0, 2} : CreatePaymentFor(c, 1, 0, 100, TRUE) /\ Track
CustomerPaymentStatusRequest == UpdatePayment(1, FALSE, 0, TRUE, "pending", FALSE) /\ Track
CustomerPaymentDeleteRequest == DeletePayment(1) /\ Track
CustomerProfileRequest ==
  \E id \in {1, 3} : UpdateCustomer(id, 500) /\ Track
BalanceRequest ==
  \E id \in {1, 3}, operation \in {"add", "subtract", "set"} :
    AdjustBalance(id, 50, operation) /\ Track
CustomerDeleteRequest == \E id \in {1, 3} : DeleteCustomer(id) /\ Track

NextCustomers ==
  \/ CustomerOrderRequest
  \/ CustomerOrderStatusRequest
  \/ CustomerDiscountRequest
  \/ CustomerPaymentRequest
  \/ CustomerPaymentStatusRequest
  \/ CustomerPaymentDeleteRequest
  \/ CustomerProfileRequest
  \/ BalanceRequest
  \/ CustomerDeleteRequest

SpecCustomers == Init /\ [][NextCustomers]_vars

\* Invoices of 100 of customer 1 with their items, rewritten by PUT, and the
\* payments against them.
InvoiceBodies == {<<>>, <<Item(1, 1)>>, <<Item(2, 1)>>, <<Item(1, 1), Item(2, 2)>>}
InvoiceItemLists == {items \in InvoiceBodies : Len(items) <= MaxItems}
InvoiceIdInputs == 1..(MaxInvoices + 1)
InvoicePaidAmounts == {0, 100}

InvoiceCreateRequest ==
  \E paid_amount \in InvoicePaidAmounts, items \in InvoiceItemLists :
    CreateInvoiceWith(1, 100, paid_amount, "pending", items) /\ Track
InvoiceUpdateRequest ==
  \E id \in InvoiceIdInputs, paid_amount \in InvoicePaidAmounts, hasItems \in BOOLEAN,
     items \in InvoiceItemLists :
    PutInvoice(id, 1, "pending", paid_amount, 100, hasItems, items) /\ Track
InvoicePaymentRequest ==
  \E invoice_id \in InvoiceIdInputs : CreatePayment(0, invoice_id, 100, TRUE) /\ Track
InvoicePaymentUpdateRequest ==
  \/ UpdatePayment(1, TRUE, 50, FALSE, "completed", FALSE) /\ Track
  \/ UpdatePayment(1, FALSE, 0, TRUE, "pending", FALSE) /\ Track
InvoicePaymentDeleteRequest == DeletePayment(1) /\ Track

NextInvoices ==
  \/ InvoiceCreateRequest
  \/ InvoiceUpdateRequest
  \/ InvoicePaymentRequest
  \/ InvoicePaymentUpdateRequest
  \/ InvoicePaymentDeleteRequest

SpecInvoices == Init /\ [][NextInvoices]_vars

\* The catalogue: products created, given another sku and soft-deleted, with
\* one order on product 1.
SkuInputs == {0, 1, 2, 3}
ProductIdInputs == 1..(MaxProducts + 1)

ProductCreateRequest == \E sku \in SkuInputs : CreateProduct(sku, 200) /\ Track
ProductUpdateRequest ==
  \E id \in ProductIdInputs, sku \in SkuInputs : UpdateProduct(id, sku) /\ Track
ProductDeleteRequest == \E id \in ProductIdInputs : DeleteProduct(id) /\ Track
CatalogOrderRequest == PlaceOrder(<<Item(1, 1)>>, 0) /\ Track
CatalogOrderStatusRequest == PatchOrderStatus(1, "completed") /\ Track

NextCatalog ==
  \/ ProductCreateRequest
  \/ ProductUpdateRequest
  \/ ProductDeleteRequest
  \/ CatalogOrderRequest
  \/ CatalogOrderStatusRequest

SpecCatalog == Init /\ [][NextCatalog]_vars

\* The stock counter and its log: placements, cancellations and purchase-order
\* receipts, nothing else.  Orders and purchase orders of one line, of two
\* lines of one product, and with a negative quantity.
LedgerBodies == {<<Item(1, 1)>>, <<Item(2, -1), Item(1, 1)>>}
LedgerPurchaseBodies == {<<PurchaseItem(1, -1)>>, <<PurchaseItem(2, 1), PurchaseItem(1, 2)>>}

LedgerPlaceRequest == \E items \in LedgerBodies : PlaceOrder(items, 0) /\ Track
LedgerCancelRequest == \E id \in OrderIdInputs : PatchOrderStatus(id, "cancelled") /\ Track
LedgerPurchaseRequest ==
  \E items \in LedgerPurchaseBodies : CreatePurchaseOrder(items) /\ Track
LedgerReceiveRequest ==
  \E id \in 1..(MaxPurchaseOrders + 1), status \in PurchaseStatuses :
    PatchPurchaseOrderStatus(id, status) /\ Track

NextLedger ==
  \/ LedgerPlaceRequest
  \/ LedgerCancelRequest
  \/ LedgerPurchaseRequest
  \/ LedgerReceiveRequest

SpecLedger == Init /\ [][NextLedger]_vars

\* Order totals: placement with explicit and defaulted unit prices, discounts.
PricedItem(q, price) == [product_id |-> 1, quantity |-> q, unit_price |-> price]
TotalsBodies ==
  {<<PricedItem(q, price)>> : q \in {-1, 1}, price \in {0, 100}}
  \cup {<<PricedItem(1, 100), PricedItem(1, price)>> : price \in {0, 100}}
  \cup {<<PricedItem(1, 100), PricedItem(1, 0), PricedItem(1, 100)>>}
TotalsItemLists == {items \in TotalsBodies : Len(items) <= MaxItems}
TotalsPercentages == {0, 50, 100}

NextTotals ==
  \/ \E items \in TotalsItemLists, pct \in TotalsPercentages : PlaceOrder(items, pct) /\ Track
  \/ \E id \in OrderIdInputs, has \in BOOLEAN, pct \in TotalsPercentages :
       UpdateOrder(id, has, pct) /\ Track

SpecTotals == Init /\ [][NextTotals]_vars

\* Payments against orders and invoices.  An order costs 200, an invoice 100.
PayItemLists == {<<[product_id |-> p, quantity |-> 1, unit_price |-> 200]>> : p \in ProductIds}
PaymentOrderIds == 0..(MaxOrders + 1)
PaymentInvoiceIds == 0..(MaxInvoices + 1)
PaymentAmounts == {50, 100}
CreateRequests ==
  [order_id : PaymentOrderIds, invoice_id : PaymentInvoiceIds, amount : PaymentAmounts,
   payment_method : {TRUE}]
  \cup [order_id : {1}, invoice_id : {0}, amount : {-50, 0, 50}, payment_method : BOOLEAN]
UpdateRequests ==
  [hasAmount : {TRUE}, amount : {50, 200}, hasStatus : {FALSE}, status : {"completed"},
   hasOther : {FALSE}]
  \cup [hasAmount : {FALSE}, amount : {0}, hasStatus : {TRUE}, status : {"completed", "pending"},
        hasOther : {FALSE}]
  \cup [hasAmount : {FALSE}, amount : {0}, hasStatus : {FALSE}, status : {"completed"},
        hasOther : BOOLEAN]

PlaceForPayment == \E items \in PayItemLists : PlaceOrder(items, 0) /\ Track
InvoiceForPayment == \E total \in {0, 100} : CreateInvoice(total, 0, "pending") /\ Track
CreatePaymentRequest ==
  \E r \in CreateRequests :
    CreatePayment(r.order_id, r.invoice_id, r.amount, r.payment_method) /\ Track
UpdatePaymentRequest ==
  \E id \in 1..(MaxPayments + 1), r \in UpdateRequests :
    UpdatePayment(id, r.hasAmount, r.amount, r.hasStatus, r.status, r.hasOther) /\ Track
DeletePaymentRequest == \E id \in 1..(MaxPayments + 1) : DeletePayment(id) /\ Track
DiscountRequest == \E id \in OrderIdInputs : UpdateOrder(id, TRUE, 50) /\ Track

NextPayOnly ==
  \/ PlaceForPayment
  \/ InvoiceForPayment
  \/ CreatePaymentRequest
  \/ UpdatePaymentRequest
  \/ DeletePaymentRequest

SpecPayOnly == Init /\ [][NextPayOnly]_vars

\* Payment creation against one order of 200 and invoices of 100, with
\* payments switched between completed and pending and deleted in between.
SettleRequests ==
  [order_id : {0, 1}, invoice_id : {0, 1}, amount : {100, 200}, payment_method : {TRUE}]
  \cup {[order_id |-> 1, invoice_id |-> 0, amount |-> -100, payment_method |-> TRUE],
        [order_id |-> 1, invoice_id |-> 0, amount |-> 100, payment_method |-> FALSE]}

PlaceForSettle ==
  PlaceOrder(<<[product_id |-> 1, quantity |-> 1, unit_price |-> 200]>>, 0) /\ Track
InvoiceForSettle == CreateInvoice(100, 0, "pending") /\ Track
SettleRequest ==
  \E r \in SettleRequests :
    CreatePayment(r.order_id, r.invoice_id, r.amount, r.payment_method) /\ Track
PaymentStatusRequest ==
  \E id \in 1..(MaxPayments + 1), status \in {"completed", "pending"} :
    UpdatePayment(id, FALSE, 0, TRUE, status, FALSE) /\ Track

NextSettle ==
  \/ PlaceForSettle
  \/ InvoiceForSettle
  \/ SettleRequest
  \/ PaymentStatusRequest
  \/ DeletePaymentRequest

SpecSettle == Init /\ [][NextSettle]_vars

\* The same with payment amounts rewritten and the order's discount changed.
NextPay ==
  \/ PlaceForSettle
  \/ InvoiceForSettle
  \/ SettleRequest
  \/ UpdatePaymentRequest
  \/ DeletePaymentRequest
  \/ DiscountRequest

SpecPay == Init /\ [][NextPay]_vars


\* ------------------------------------------- overlapping requests, by statement
\* Each request runs on its own pooled connection: BEGIN, then one awaited
\* query after the other, then COMMIT.  The database runs at its default
\* isolation (READ COMMITTED; no handler sets another level or takes
\* SELECT ... FOR UPDATE): every SELECT sees the rows committed at that moment
\* plus the transaction's own writes, an UPDATE holds the row until the
\* transaction ends and makes a second writer of that row wait, and written
\* rows become visible to others at COMMIT.  txn[t] holds the position (pc) and
\* the local variables of the request running on connection t; a connection
\* serves one request.
InFlight(t) == txn[t].pc \notin {"idle", "done"}

Quiet == \A t \in Txns : txn[t].pc = "idle"

\* Connections are taken in order.
Free(t) == txn[t].pc = "idle" /\ \A u \in Txns : u < t => txn[u].pc # "idle"

\* Rows the transactions in flight are going to insert.
RECURSIVE InFlightRows(_, _)
InFlightRows(kinds, ts) ==
  IF ts = {} THEN 0
  ELSE LET t == CHOOSE u \in ts : TRUE
       IN (IF InFlight(t) /\ txn[t].kind \in kinds THEN Len(txn[t].items) ELSE 0)
          + InFlightRows(kinds, ts \ {t})

InFlightOrders == Cardinality({t \in Txns : InFlight(t) /\ txn[t].kind = "place"})

\* Dirty-read variant: the value another transaction has written and not yet
\* committed.
StockSeenDirty(t, p) ==
  IF \E u \in Txns : InFlight(u) /\ p \in DOMAIN txn[u].written
  THEN LET u == CHOOSE w \in Txns : InFlight(w) /\ p \in DOMAIN txn[w].written
       IN txn[u].written[p]
  ELSE products[p].stock

\* What SELECT stock FROM products WHERE id = p returns to transaction t: its
\* own write if it has written the row, the committed row otherwise.
StockSeen(t, p) ==
  IF p \in DOMAIN txn[t].written THEN txn[t].written[p] ELSE products[p].stock

\* The row of product p is held by another transaction.
RowHeld(t, p) == \E u \in Txns : u # t /\ InFlight(u) /\ p \in DOMAIN txn[u].written

\* The request ends with COMMIT, or with ROLLBACK in the catch block or before
\* an early return, and finally releases the connection.
Finished(t, result) == [txn[t] EXCEPT !.pc = "done", !.result = result, !.open = FALSE]

Untouched == UNCHANGED <<products, orders, order_items, stock_movements,
                         purchase_orders, purchase_order_items, payments, invoices, invoice_items, customers>>

\* Variant of the generator's query that also sees the orders other
\* transactions have inserted and not yet committed.
OrdersSeenDirty(t) ==
  LET others_ == {u \in Txns : u # t /\ txn[u].kind = "place"
                               /\ txn[u].pc \in {"read", "write", "commit"}}
  IN IF others_ = {} THEN orders
     ELSE Append(orders, [order_number |-> txn[CHOOSE u \in others_ : TRUE].orderNumber])

\* The rows of orders the generator's query sees: it runs on the pool, on a
\* connection of its own, so it sees committed orders only.
OrdersSeen(t) == orders

\* POST /api/orders: BEGIN, destructure the body, generateOrderNumber.
BeginPlace(t, items, discount_percentage) ==
  /\ Free(t)
  /\ Len(orders) + InFlightOrders < MaxOrders
  /\ Len(stock_movements) + InFlightRows({"place", "patch", "receive"}, Txns) + Len(items)
       <= MaxMovements
  /\ txn' = [txn EXCEPT ![t] =
       [IdleTxn EXCEPT !.pc = "check", !.open = TRUE, !.kind = "place", !.items = items, !.i = 1,
                       !.discount_percentage = discount_percentage,
                       !.orderNumber = generateOrderNumber(OrdersSeen(t))]]
  /\ UNCHANGED last
  /\ Untouched

\* One round of the first loop: SELECT the product, check its stock.
CheckItem(t) ==
  /\ txn[t].kind = "place" /\ txn[t].pc = "check"
  /\ Untouched
  /\ LET item == txn[t].items[txn[t].i]
     IN IF item.product_id \notin DOMAIN products
        THEN /\ txn' = [txn EXCEPT ![t] = Finished(t, "product_not_found")]
             /\ last' = [op |-> "place", result |-> "product_not_found", id |-> 0,
                         at |-> txn[t].i, prev |-> "none"]
        ELSE LET product == [products[item.product_id] EXCEPT
                               !.stock = StockSeen(t, item.product_id)]
                 quantity == item.quantity
                 unitPrice == UnitPriceOf(item, product)
                 itemTotal == quantity * unitPrice
             IN IF InsufficientStock(product, quantity)
                THEN \* throw -> catch -> ROLLBACK
                     /\ txn' = [txn EXCEPT ![t] =
                          [Finished(t, "insufficient_stock") EXCEPT
                             !.seen = Append(@, product.stock)]]
                     /\ last' = [op |-> "place", result |-> "insufficient_stock", id |-> 0,
                                 at |-> txn[t].i, prev |-> "none"]
                ELSE /\ txn' = [txn EXCEPT ![t] =
                          [@ EXCEPT !.seen = Append(@, product.stock),
                                    !.processed = Append(@,
                                       [product_id |-> item.product_id, quantity |-> quantity,
                                        unit_price |-> unitPrice, total |-> itemTotal]),
                                    !.i = IF txn[t].i = Len(txn[t].items) THEN 1 ELSE @ + 1,
                                    !.pc = IF txn[t].i = Len(txn[t].items)
                                           THEN "insert" ELSE "check"]]
                     /\ UNCHANGED last

\* INSERT INTO orders.  The schema is not part of the sources: with a unique
\* index on order_number the insert of a number another transaction has
\* inserted waits for that transaction and fails once it has committed;
\* without one the duplicate is stored.
InsertOrder(t) ==
  /\ txn[t].kind = "place" /\ txn[t].pc = "insert"
  /\ Untouched
  /\ \E unique \in BOOLEAN :
       IF unique
       THEN /\ ~\E u \in Txns : /\ u # t /\ txn[u].kind = "place"
                                /\ txn[u].pc \in {"read", "write", "commit"}
                                /\ txn[u].orderNumber = txn[t].orderNumber
            /\ IF \E k \in 1..Len(orders) : orders[k].order_number = txn[t].orderNumber
               THEN /\ txn' = [txn EXCEPT ![t] = Finished(t, "duplicate_order_number")]
                    /\ last' = [op |-> "place", result |-> "error", id |-> 0, at |-> 0,
                                prev |-> "none"]
               ELSE /\ txn' = [txn EXCEPT ![t].pc = "read", ![t].items = txn[t].processed]
                    /\ UNCHANGED last
       ELSE /\ txn' = [txn EXCEPT ![t].pc = "read", ![t].items = txn[t].processed]
            /\ UNCHANGED last

\* PATCH /api/orders/:id/status: BEGIN, SELECT the order, the two guards, and
\* for a cancellation SELECT its items.
BeginPatchOrder(t, id, status) ==
  /\ Free(t)
  /\ Untouched
  /\ IF id \notin 1..Len(orders)
     THEN /\ txn' = [txn EXCEPT ![t] =
               \* return res.status(404) after BEGIN: no ROLLBACK, then finally release
               [IdleTxn EXCEPT !.pc = "done", !.open = TRUE, !.kind = "patch", !.id = id,
                               !.status = status, !.result = "order_not_found"]]
          /\ last' = [op |-> "patch_status", result |-> "order_not_found", id |-> id,
                      at |-> 0, prev |-> "none"]
     ELSE LET currentStatus == orders[id].status
              cancelling == status = "cancelled" /\ currentStatus # "cancelled"
              orderItems == IF cancelling THEN OrderItemsOf(id) ELSE <<>>
          IN IF TransitionRejected(currentStatus, status)
             THEN /\ txn' = [txn EXCEPT ![t] =
                       \* return res.status(400) after BEGIN: no ROLLBACK either
                       [IdleTxn EXCEPT !.pc = "done", !.open = TRUE, !.kind = "patch",
                                       !.id = id,
                                       !.status = status, !.prev = currentStatus,
                                       !.result = "invalid_transition"]]
                  /\ last' = [op |-> "patch_status", result |-> "invalid_transition",
                              id |-> id, at |-> 0, prev |-> "none"]
             ELSE /\ Len(stock_movements) + InFlightRows({"place", "patch", "receive"}, Txns)
                       + Len(orderItems) <= MaxMovements
                  /\ txn' = [txn EXCEPT ![t] =
                       [IdleTxn EXCEPT !.pc = IF cancelling THEN "read" ELSE "status",
                                       !.open = TRUE, !.kind = "patch", !.id = id, !.status = status,
                                       !.prev = currentStatus, !.items = orderItems, !.i = 1]]
                  /\ UNCHANGED last

\* PATCH /api/purchase-orders/:id/status: BEGIN, SELECT the purchase order,
\* and when it is to be received SELECT its items.
BeginPatchPurchaseOrder(t, id, status) ==
  /\ Free(t)
  /\ Untouched
  /\ IF id \notin 1..Len(purchase_orders)
     THEN /\ txn' = [txn EXCEPT ![t] =
               \* return res.status(404) after BEGIN: no ROLLBACK, then finally release
               [IdleTxn EXCEPT !.pc = "done", !.open = TRUE, !.kind = "receive", !.id = id,
                               !.status = status, !.result = "po_not_found"]]
          /\ last' = [op |-> "patch_po_status", result |-> "po_not_found", id |-> id,
                      at |-> 0, prev |-> "none"]
     ELSE LET currentOrder == purchase_orders[id]
              receiving == MarkingAsReceived(status, currentOrder.status)
              orderItems == IF receiving
                            THEN SelectPurchaseItems(purchase_order_items, id) ELSE <<>>
          IN /\ Len(stock_movements) + InFlightRows({"place", "patch", "receive"}, Txns)
                  + Len(orderItems) <= MaxMovements
             /\ txn' = [txn EXCEPT ![t] =
                  [IdleTxn EXCEPT !.pc = IF receiving THEN "read" ELSE "status",
                                  !.open = TRUE, !.kind = "receive", !.id = id, !.status = status,
                                  !.prev = currentOrder.status, !.items = orderItems, !.i = 1]]
             /\ UNCHANGED last

\* The three read-then-write loops have one shape: SELECT stock, compute
\* newStock in the handler, UPDATE products SET stock = newStock.
ReadStock(t) ==
  /\ txn[t].kind \in {"place", "patch", "receive"} /\ txn[t].pc = "read"
  /\ txn' = [txn EXCEPT ![t].currentStock = StockSeen(t, txn[t].items[txn[t].i].product_id),
                        ![t].pc = "write"]
  /\ UNCHANGED last
  /\ Untouched

\* Variant that debits whatever the request is.
NewStockDebitOnly(kind, currentStock, quantity) == currentStock - quantity

\* newStock = currentStock - item.quantity in a placement,
\* currentStock + item.quantity in a cancellation and in a receipt.
NewStock(kind, currentStock, quantity) ==
  IF kind = "place" THEN currentStock - quantity ELSE currentStock + quantity

\* UPDATE products SET stock = $2 WHERE id = $1 waits while another
\* transaction holds the row, then stores the value computed from the earlier
\* read.
WriteStock(t) ==
  /\ txn[t].kind \in {"place", "patch", "receive"} /\ txn[t].pc = "write"
  /\ LET item == txn[t].items[txn[t].i]
         newStock == NewStock(txn[t].kind, txn[t].currentStock, item.quantity)
         more == txn[t].i < Len(txn[t].items)
     IN /\ ~RowHeld(t, item.product_id)
        /\ txn' = [txn EXCEPT
             ![t].written = (item.product_id :> newStock) @@ @,
             ![t].i = IF more THEN @ + 1 ELSE @,
             ![t].pc = IF more THEN "read"
                       ELSE IF txn[t].kind = "place" THEN "commit" ELSE "status"]
  /\ UNCHANGED last
  /\ Untouched

\* UPDATE orders / purchase_orders SET status = $2 WHERE id = $1 waits while
\* another transaction holds that row.
UpdateStatus(t) ==
  /\ txn[t].kind \in {"patch", "receive"} /\ txn[t].pc = "status"
  /\ ~\E u \in Txns : /\ u # t /\ txn[u].kind = txn[t].kind /\ txn[u].id = txn[t].id
                      /\ txn[u].pc = "commit"
  /\ txn' = [txn EXCEPT ![t].pc = "commit"]
  /\ UNCHANGED last
  /\ Untouched

\* COMMIT: the transaction's writes become the committed rows.
CommittedProducts(t) ==
  [p \in DOMAIN products |->
     IF p \in DOMAIN txn[t].written
     THEN [products[p] EXCEPT !.stock = txn[t].written[p]] ELSE products[p]]

CommitPlace(t) ==
  /\ txn[t].kind = "place" /\ txn[t].pc = "commit"
  /\ LET subtotal == SumTotal(txn[t].items)
         discountAmount == DiscountAmount(subtotal, txn[t].discount_percentage)
         id == Len(orders) + 1
     IN /\ orders' = Append(orders,
              [customer_id |-> 0,
               order_number |-> txn[t].orderNumber, subtotal |-> subtotal,
               tax_amount |-> TaxAmount(subtotal - discountAmount),
               discount_amount |-> discountAmount,
               discount_percentage |-> txn[t].discount_percentage,
               total |-> OrderTotal(subtotal, discountAmount),
               status |-> "pending", payment_status |-> "pending"])
        /\ order_items' = order_items \o OrderItemRows(txn[t].items, id)
        /\ stock_movements' = stock_movements \o MovementRows(txn[t].items, "out", "sale", id)
        /\ products' = CommittedProducts(t)
        /\ txn' = [txn EXCEPT ![t] = [Finished(t, "created") EXCEPT !.id = id]]
        /\ last' = [op |-> "place", result |-> "created", id |-> id, at |-> 0, prev |-> "none"]
  /\ UNCHANGED <<purchaseTables, paymentTables, customers, invoice_items>>

CommitPatchOrder(t) ==
  /\ txn[t].kind = "patch" /\ txn[t].pc = "commit"
  /\ products' = CommittedProducts(t)
  /\ stock_movements' = stock_movements \o MovementRows(txn[t].items, "in", "return", txn[t].id)
  /\ orders' = [orders EXCEPT ![txn[t].id].status = txn[t].status]
  /\ txn' = [txn EXCEPT ![t] = Finished(t, "updated")]
  /\ last' = [op |-> "patch_status", result |-> "updated", id |-> txn[t].id, at |-> 0,
              prev |-> txn[t].prev]
  /\ UNCHANGED <<order_items, purchaseTables, paymentTables, customers, invoice_items>>

CommitPatchPurchaseOrder(t) ==
  /\ txn[t].kind = "receive" /\ txn[t].pc = "commit"
  /\ products' = CommittedProducts(t)
  /\ stock_movements' =
       stock_movements \o MovementRows(txn[t].items, "in", "purchase", txn[t].id)
  /\ purchase_order_items' =
       IF txn[t].items # <<>> THEN MarkReceived(purchase_order_items, txn[t].id)
       ELSE purchase_order_items
  /\ purchase_orders' = [purchase_orders EXCEPT ![txn[t].id].status = txn[t].status]
  /\ txn' = [txn EXCEPT ![t] = Finished(t, "updated")]
  /\ last' = [op |-> "patch_po_status", result |-> "updated", id |-> txn[t].id, at |-> 0,
              prev |-> txn[t].prev]
  /\ UNCHANGED <<orderTables, paymentTables, customers, invoice_items>>

\* Requests before any overlap (each alone on the database), then two
\* overlapping requests on product 1.
RaceBodies == {<<Item(1, q)>> : q \in {1, 2}} \cup {<<Item(3, 1)>>}
RaceStatuses == {"completed", "cancelled"}
RacePurchaseStatuses == {"pending", "received"}

SetupPlace == Quiet /\ PlaceOrder(<<Item(1, 1)>>, 0) /\ Track
SetupPurchase == Quiet /\ CreatePurchaseOrder(<<PurchaseItem(1, 2)>>) /\ Track
PlaceBegins == \E t \in Txns, items \in RaceBodies : BeginPlace(t, items, 0) /\ Track
PatchOrderBegins ==
  \E t \in Txns, status \in RaceStatuses : BeginPatchOrder(t, 1, status) /\ Track
PatchPurchaseOrderBegins ==
  \E t \in Txns, id \in {1, 2}, status \in RacePurchaseStatuses :
    BeginPatchPurchaseOrder(t, id, status) /\ Track

NextRace ==
  \/ SetupPlace
  \/ SetupPurchase
  \/ PlaceBegins
  \/ PatchOrderBegins
  \/ PatchPurchaseOrderBegins
  \/ \E t \in Txns : CheckItem(t) /\ Track
  \/ \E t \in Txns : InsertOrder(t) /\ Track
  \/ \E t \in Txns : ReadStock(t) /\ Track
  \/ \E t \in Txns : WriteStock(t) /\ Track
  \/ \E t \in Txns : UpdateStatus(t) /\ Track
  \/ \E t \in Txns : CommitPlace(t) /\ Track
  \/ \E t \in Txns : CommitPatchOrder(t) /\ Track
  \/ \E t \in Txns : CommitPatchPurchaseOrder(t) /\ Track

SpecRace == Init /\ [][NextRace]_vars


\* ------------------------------------------- overlapping payment creations
\* Variant of the sum that also counts rows other transactions have inserted
\* and not yet committed.
PaymentsSeenDirty(t) ==
  LET others_ == {u \in Txns : u # t /\ txn[u].kind = "pay"
                               /\ txn[u].pc \in {"invoice", "order", "commit"}}
      row(u) == [order_id |-> txn[u].order_id, invoice_id |-> txn[u].invoice_id,
                 customer_id |-> 0, amount |-> txn[u].amount, status |-> "completed"]
  IN IF others_ = {} THEN payments
     ELSE Append(payments, row(CHOOSE u \in others_ : TRUE))

\* The rows of payments a SELECT of transaction t sees before its own insert:
\* the committed ones.
PaymentsSeen(t) == payments

InFlightPayments == Cardinality({t \in Txns : InFlight(t) /\ txn[t].kind = "pay"})

PaymentDone(t, order_id, invoice_id, amount, result) ==
  /\ txn' = [txn EXCEPT ![t] =
       [IdleTxn EXCEPT !.pc = "done", !.kind = "pay", !.order_id = order_id,
                       !.invoice_id = invoice_id, !.amount = amount, !.result = result]]
  /\ last' = [op |-> "create_payment", result |-> result, id |-> 0, at |-> 0, prev |-> "none"]

\* POST /api/payments: the two validations, BEGIN, SELECT the invoice when
\* invoice_id is given and the order otherwise.
BeginPayment(t, order_id, invoice_id, amount, payment_method) ==
  /\ Free(t)
  /\ Untouched
  /\ IF MissingFields(order_id, invoice_id, amount, payment_method)
     THEN PaymentDone(t, order_id, invoice_id, amount, "missing_fields")
     ELSE IF amount <= 0
     THEN PaymentDone(t, order_id, invoice_id, amount, "amount_not_positive")
     ELSE IF invoice_id # 0 /\ invoice_id \notin 1..Len(invoices)
     THEN PaymentDone(t, order_id, invoice_id, amount, "invoice_not_found")
     ELSE IF invoice_id = 0 /\ order_id \notin 1..Len(orders)
     THEN PaymentDone(t, order_id, invoice_id, amount, "order_not_found")
     ELSE /\ Len(payments) + InFlightPayments < MaxPayments
          /\ txn' = [txn EXCEPT ![t] =
               [IdleTxn EXCEPT !.pc = "sum", !.open = TRUE, !.kind = "pay", !.order_id = order_id,
                               !.invoice_id = invoice_id, !.amount = amount,
                               !.totalToPay = IF invoice_id # 0 THEN invoices[invoice_id].total
                                              ELSE orders[order_id].total]]
          /\ UNCHANGED last

\* SELECT COALESCE(SUM(amount), 0) ... AND status = 'completed', then the
\* overpayment check.
SumPaid(t) ==
  /\ txn[t].kind = "pay" /\ txn[t].pc = "sum"
  /\ Untouched
  /\ LET currentlyPaid ==
           IF txn[t].invoice_id # 0 THEN PaidForInvoice(PaymentsSeen(t), txn[t].invoice_id)
           ELSE PaidForOrder(PaymentsSeen(t), txn[t].order_id)
         newTotalPaid == currentlyPaid + txn[t].amount
     IN IF ExceedsTotal(newTotalPaid, txn[t].totalToPay)
        THEN /\ txn' = [txn EXCEPT ![t] =
                  [Finished(t, "exceeds_balance") EXCEPT !.currentlyPaid = currentlyPaid]]
             /\ last' = [op |-> "create_payment", result |-> "exceeds_balance", id |-> 0,
                         at |-> 0, prev |-> "none"]
        ELSE /\ txn' = [txn EXCEPT ![t].currentlyPaid = currentlyPaid, ![t].pc = "insert"]
             /\ UNCHANGED last

\* SELECT generate_payment_number() and INSERT INTO payments.  The function
\* and the schema are in the database, not in the sources: the number either
\* is fresh or, when another transaction has inserted a payment it has not
\* committed yet, repeats that payment's number and the insert fails on a
\* unique index.  An order_id naming no order violates the foreign key.
InsertPayment(t) ==
  /\ txn[t].kind = "pay" /\ txn[t].pc = "insert"
  /\ Untouched
  /\ \E unique \in BOOLEAN :
       IF txn[t].order_id # 0 /\ txn[t].order_id \notin 1..Len(orders)
       THEN /\ txn' = [txn EXCEPT ![t] = Finished(t, "error")]
            /\ last' = [op |-> "create_payment", result |-> "error", id |-> 0,
                        at |-> 0, prev |-> "none"]
       ELSE IF unique /\ \E u \in Txns : /\ u # t /\ txn[u].kind = "pay"
                                         /\ txn[u].pc \in {"invoice", "order", "commit"}
       THEN /\ txn' = [txn EXCEPT ![t] = Finished(t, "duplicate_payment_number")]
            /\ last' = [op |-> "create_payment", result |-> "error", id |-> 0,
                        at |-> 0, prev |-> "none"]
       ELSE /\ txn' = [txn EXCEPT ![t].pc = IF txn[t].invoice_id # 0 THEN "invoice"
                                            ELSE "order"]
            /\ UNCHANGED last

\* UPDATE invoices SET paid_amount, status WHERE id = invoice_id waits while
\* another transaction holds the invoice's row.
UpdateInvoice(t) ==
  /\ txn[t].kind = "pay" /\ txn[t].pc = "invoice"
  /\ ~\E u \in Txns : /\ u # t /\ txn[u].kind = "pay" /\ txn[u].invoice_id = txn[t].invoice_id
                      /\ txn[u].pc \in {"order", "commit"}
  /\ txn' = [txn EXCEPT ![t].pc = IF txn[t].order_id # 0 THEN "order" ELSE "commit"]
  /\ UNCHANGED last
  /\ Untouched

\* UPDATE orders SET payment_status WHERE id = finalOrderId, likewise.
UpdateOrderPaymentStatus(t) ==
  /\ txn[t].kind = "pay" /\ txn[t].pc = "order"
  /\ ~\E u \in Txns : /\ u # t /\ txn[u].kind = "pay" /\ txn[u].order_id = txn[t].order_id
                      /\ txn[u].pc = "commit"
  /\ txn' = [txn EXCEPT ![t].pc = "commit"]
  /\ UNCHANGED last
  /\ Untouched

CommitPayment(t) ==
  /\ txn[t].kind = "pay" /\ txn[t].pc = "commit"
  /\ LET order_id == txn[t].order_id
         invoice_id == txn[t].invoice_id
         newTotalPaid == txn[t].currentlyPaid + txn[t].amount
         totalToPay == txn[t].totalToPay
         finalCustomerId == IF invoice_id # 0 THEN invoices[invoice_id].customer_id
                            ELSE orders[order_id].customer_id
     IN /\ payments' = Append(payments,
              [order_id |-> order_id, invoice_id |-> invoice_id,
               customer_id |-> finalCustomerId,
               amount |-> txn[t].amount, status |-> "completed"])
        /\ invoices' =
             IF invoice_id # 0
             THEN [invoices EXCEPT
                     ![invoice_id].paid_amount = newTotalPaid,
                     ![invoice_id].status = InvoiceStatusFor(newTotalPaid, totalToPay)]
             ELSE invoices
        /\ orders' =
             IF order_id # 0
             THEN [orders EXCEPT ![order_id].payment_status =
                                   PaymentStatusFor(newTotalPaid, totalToPay)]
             ELSE orders
        /\ txn' = [txn EXCEPT ![t] = [Finished(t, "created") EXCEPT !.id = Len(payments) + 1]]
        /\ last' = [op |-> "create_payment", result |-> "created",
                    id |-> Len(payments) + 1, at |-> 0, prev |-> "none"]
  /\ UNCHANGED <<products, stock_movements, order_items, purchaseTables, customers, invoice_items>>

\* One order of 200 and one invoice of 100 created before any overlap, then
\* two overlapping payment creations.
SetupOrderToPay == Quiet /\ PlaceForSettle
SetupInvoiceToPay == Quiet /\ InvoiceForSettle
PaymentBegins ==
  \E t \in Txns, r \in SettleRequests :
    BeginPayment(t, r.order_id, r.invoice_id, r.amount, r.payment_method) /\ Track

NextPayRace ==
  \/ SetupOrderToPay
  \/ SetupInvoiceToPay
  \/ PaymentBegins
  \/ \E t \in Txns : SumPaid(t) /\ Track
  \/ \E t \in Txns : InsertPayment(t) /\ Track
  \/ \E t \in Txns : UpdateInvoice(t) /\ Track
  \/ \E t \in Txns : UpdateOrderPaymentStatus(t) /\ Track
  \/ \E t \in Txns : CommitPayment(t) /\ Track

SpecPayRace == Init /\ [][NextPayRace]_vars


\* ------------------------------------------------------------------ claims
\* C1: with non-overlapping requests every product's stock is >= 0 after every
\* committed write of order placement, order cancellation, purchase-order
\* receiving and stock adjustment, for every request the validators accept.
StockNeverNegative == \A p \in ProductIds : products[p].stock >= 0

\* C2: a successful placement leaves stock = old stock - (sum of the quantities
\* ordered for the product over all lines), and a placement with a line whose
\* quantity exceeds the product's current stock fails and writes nothing.
LineExceedsStock(items) ==
  \E i \in 1..Len(items) :
    /\ items[i].product_id \in ProductIds
    /\ items[i].quantity > products[items[i].product_id].stock

PlacementDebitsStock ==
  [][\A items \in ItemLists, pct \in Percentages :
       PlaceOrder(items, pct) =>
         /\ last'.result = "created" =>
              \A p \in ProductIds : products'[p].stock = products[p].stock - SumQty(items, p)
         /\ LineExceedsStock(items) =>
              /\ last'.result # "created"
              /\ UNCHANGED <<products, orders, order_items, stock_movements>>]_vars

PlacedTwoLinesOfOneProduct ==
  /\ last.op = "place"
  /\ last.result = "created"
  /\ LET lines == OrderItemsOf(last.id)
     IN /\ Len(lines) = 2
        /\ lines[1].product_id = lines[2].product_id
        /\ lines[1].quantity > 0
        /\ lines[2].quantity > 0

\* C3: placement is all-or-nothing: when any item, at any position, names a
\* missing product or asks for more than the stock, orders, order_items,
\* products.stock and stock_movements are exactly as before the request.
ItemFails(item) ==
  \/ item.product_id \notin ProductIds
  \/ item.quantity > products[item.product_id].stock

PlacementAllOrNothing ==
  [][\A items \in ItemLists, pct \in Percentages :
       (PlaceOrder(items, pct) /\ \E i \in 1..Len(items) : ItemFails(items[i])) =>
         UNCHANGED <<products, orders, order_items, stock_movements>>]_vars

PlacementFailedAtSecondItem ==
  /\ last.op = "place"
  /\ last.result \in {"product_not_found", "insufficient_stock"}
  /\ last.at = 2
  /\ Len(orders) = 1
  /\ Len(stock_movements) > 0


\* C4: for every order, in every state reached by placement and discount
\* updates, sum(order_items.total) = subtotal, discount_amount = subtotal *
\* discount_percentage / 100 and total = subtotal - discount_amount + tax_amount.
RECURSIVE SumOfItemTotals(_, _)
SumOfItemTotals(o, n) ==
  IF n = 0 THEN 0
  ELSE (IF order_items[n].order_id = o THEN order_items[n].total ELSE 0)
       + SumOfItemTotals(o, n - 1)

OrderTotalsConsistent ==
  \A o \in 1..Len(orders) :
    LET ord == orders[o]
    IN /\ SumOfItemTotals(o, Len(order_items)) = ord.subtotal
       /\ ord.discount_amount * 100 = ord.subtotal * ord.discount_percentage
       /\ ord.total = ord.subtotal - ord.discount_amount + ord.tax_amount

DiscountedOrderUpdated ==
  /\ last.op = "update_order"
  /\ last.result = "updated"
  /\ orders[last.id].discount_percentage = 50
  /\ orders[last.id].subtotal = 300
  /\ orders[last.id].total = 150

\* C5: placing an order and cancelling it while it is pending or processing
\* returns every involved product's stock to its value before the placement,
\* provided no other request wrote that product in between.
RoundTripRestoresStock ==
  (round.id # 0 /\ orders[round.id].status = "cancelled") =>
    \A p \in ProductIds \ round.touched : products[p].stock = round.stock[p]

CancelledTwoLineOrder ==
  /\ round.id # 0
  /\ round.touched = {}
  /\ last.op = "patch_status"
  /\ last.result = "updated"
  /\ last.id = round.id
  /\ last.prev = "processing"
  /\ orders[round.id].status = "cancelled"
  /\ LET lines == OrderItemsOf(round.id)
     IN /\ Len(lines) = 2
        /\ lines[1].product_id = lines[2].product_id

\* C6: cancelled and completed are terminal: a status patch that names another
\* status is rejected with the invalid-transition error and the status never
\* changes again.
TerminalStatuses == {"cancelled", "completed"}

TerminalStatusIsFinal ==
  [][\A o \in 1..Len(orders) :
       orders[o].status \in TerminalStatuses =>
         /\ orders'[o].status = orders[o].status
         /\ \A s \in OrderStatuses \ {orders[o].status} :
              PatchOrderStatus(o, s) =>
                (last'.result = "invalid_transition" /\ UNCHANGED orders)]_vars

RejectedPatchOfCompletedOrder ==
  /\ last.op = "patch_status"
  /\ last.result = "invalid_transition"
  /\ orders[last.id].status = "completed"

\* C7 as stated: the only status changes ever committed are pending ->
\* processing, processing -> completed, pending -> cancelled and processing ->
\* cancelled.
SpecTransitions ==
  {<<"pending", "processing">>, <<"processing", "completed">>,
   <<"pending", "cancelled">>, <<"processing", "cancelled">>}

OnlyStateMachineTransitions ==
  [][\A o \in 1..Len(orders) :
       orders'[o].status # orders[o].status =>
         <<orders[o].status, orders'[o].status>> \in SpecTransitions]_vars

\* C7 as amended: the status patch applies the requested status, whichever of
\* the four it is, to an order that is pending or processing, and applies no
\* change to an order that is cancelled or completed.
PatchAppliesFromNonTerminalOnly ==
  [][\A o \in 1..Len(orders), s \in OrderStatuses :
       PatchOrderStatus(o, s) =>
         IF orders[o].status \in {"pending", "processing"}
         THEN orders'[o].status = s /\ last'.result = "updated"
         ELSE orders'[o].status = orders[o].status]_vars

PendingPatchedToCompleted ==
  /\ last.op = "patch_status"
  /\ last.result = "updated"
  /\ last.prev = "pending"
  /\ orders[last.id].status = "completed"


\* Sums of the completed payments of an order and of an invoice, over the
\* first n rows of the payments table.
RECURSIVE CompletedForOrder(_, _)
CompletedForOrder(o, n) ==
  IF n = 0 THEN 0
  ELSE (IF payments[n].order_id = o /\ payments[n].status = "completed"
        THEN payments[n].amount ELSE 0) + CompletedForOrder(o, n - 1)

RECURSIVE CompletedForInvoice(_, _)
CompletedForInvoice(i, n) ==
  IF n = 0 THEN 0
  ELSE (IF payments[n].invoice_id = i /\ payments[n].status = "completed"
        THEN payments[n].amount ELSE 0) + CompletedForInvoice(i, n - 1)

\* C8: for every order and every invoice, in every state reachable by payment
\* creations, updates, deletions and order discount updates, the sum of its
\* completed payments is <= its total.
PaidWithinTotal ==
  /\ \A o \in 1..Len(orders) : CompletedForOrder(o, Len(payments)) <= orders[o].total
  /\ \A i \in 1..Len(invoices) : CompletedForInvoice(i, Len(payments)) <= invoices[i].total

\* C9: a payment creation whose amount would take the completed payments of
\* its target (the invoice when invoice_id is given, otherwise the order) past
\* the target's total is rejected before any insert: no payment row is added
\* and orders and invoices are unchanged.
TargetExists(r) ==
  IF r.invoice_id # 0 THEN r.invoice_id \in 1..Len(invoices)
  ELSE r.order_id \in 1..Len(orders)

WouldExceed(r) ==
  IF r.invoice_id # 0
  THEN CompletedForInvoice(r.invoice_id, Len(payments)) + r.amount > invoices[r.invoice_id].total
  ELSE CompletedForOrder(r.order_id, Len(payments)) + r.amount > orders[r.order_id].total

OverpaymentRejected ==
  [][\A r \in SettleRequests :
       (/\ CreatePayment(r.order_id, r.invoice_id, r.amount, r.payment_method)
        /\ TargetExists(r)
        /\ WouldExceed(r)) =>
         /\ last'.result # "created"
         /\ UNCHANGED <<payments, orders, invoices>>]_vars

OverpaymentAttempted ==
  /\ last.op = "create_payment"
  /\ last.result = "exceeds_balance"
  /\ Len(payments) > 0
  /\ \E o \in 1..Len(orders) :
       /\ CompletedForOrder(o, Len(payments)) > 0
       /\ CompletedForOrder(o, Len(payments)) <= orders[o].total

\* C10: for every order that payment creations, updates and deletions have
\* touched, payment_status is 'paid' iff the sum of its completed payments is
\* >= total, 'partial' iff 0 < sum < total, 'pending' iff sum = 0, also for
\* payments created with both order_id and invoice_id.
PaymentStatusMatchesPaidSum ==
  \A o \in 1..Len(orders) :
    (\E n \in 1..Len(payments) : payments[n].order_id = o) =>
      LET paid == CompletedForOrder(o, Len(payments))
          ps == orders[o].payment_status
      IN /\ (ps = "paid") <=> (paid >= orders[o].total)
         /\ (ps = "partial") <=> (paid > 0 /\ paid < orders[o].total)
         /\ (ps = "pending") <=> (paid = 0)

\* Sum of the completed payments of invoice i over the first n rows of ps.
RECURSIVE InvoiceSum(_, _, _)
InvoiceSum(ps, i, n) ==
  IF n = 0 THEN 0
  ELSE (IF ps[n].invoice_id = i /\ ps[n].status = "completed" THEN ps[n].amount ELSE 0)
       + InvoiceSum(ps, i, n - 1)

ExactlyOneTargetAccepted ==
  [][\A r \in SettleRequests :
       (/\ CreatePayment(r.order_id, r.invoice_id, r.amount, r.payment_method)
        /\ (r.order_id = 0) = (r.invoice_id = 0)) =>
         (last'.result # "created" /\ UNCHANGED payments)]_vars

\* C12 as amended: a request with neither id is rejected without an insert; a
\* request with both ids, naming an existing invoice and an existing order,
\* with a payment method and a positive amount within the invoice's remaining
\* balance, is accepted and inserts a completed payment carrying both ids.
NeitherRejectedBothAccepted ==
  [][\A r \in SettleRequests :
       CreatePayment(r.order_id, r.invoice_id, r.amount, r.payment_method) =>
         /\ (r.order_id = 0 /\ r.invoice_id = 0) =>
              (last'.result = "missing_fields" /\ UNCHANGED <<payments, orders, invoices>>)
         /\ (/\ r.order_id \in 1..Len(orders)
             /\ r.invoice_id \in 1..Len(invoices)
             /\ r.payment_method
             /\ r.amount > 0
             /\ InvoiceSum(payments, r.invoice_id, Len(payments)) + r.amount
                  <= invoices[r.invoice_id].total) =>
              /\ last'.result = "created"
              /\ payments' = Append(payments,
                   [order_id |-> r.order_id, invoice_id |-> r.invoice_id,
                    customer_id |-> invoices[r.invoice_id].customer_id,
                    amount |-> r.amount, status |-> "completed"])]_vars

PaymentWithBothTargets ==
  /\ last.op = "create_payment"
  /\ last.result = "created"
  /\ payments[last.id].order_id # 0
  /\ payments[last.id].invoice_id # 0

\* Quantity that purchase order po orders of product p, summed over the first
\* n rows of the purchase_order_items table rows.
RECURSIVE PurchaseQty(_, _, _, _)
PurchaseQty(rows, po, p, n) ==
  IF n = 0 THEN 0
  ELSE (IF rows[n].purchase_order_id = po /\ rows[n].product_id = p
        THEN rows[n].quantity ELSE 0) + PurchaseQty(rows, po, p, n - 1)

\* C13: patching a purchase order that is not 'received' to 'received' adds to
\* every product's stock the quantity the order has for it, summed over its
\* lines, and leaves received_quantity = quantity on every item of the order.
ReceivingCreditsStock ==
  [][\A id \in 1..Len(purchase_orders) :
       (PatchPurchaseOrderStatus(id, "received") /\ purchase_orders[id].status # "received") =>
         /\ \A p \in ProductIds :
              products'[p].stock =
                products[p].stock
                  + PurchaseQty(purchase_order_items, id, p, Len(purchase_order_items))
         /\ \A n \in 1..Len(purchase_order_items') :
              purchase_order_items'[n].purchase_order_id = id =>
                purchase_order_items'[n].received_quantity = purchase_order_items'[n].quantity
         /\ purchase_orders'[id].status = "received"]_vars

ReceivedTwoLinesOfOneProduct ==
  /\ last.op = "patch_po_status"
  /\ last.result = "updated"
  /\ last.prev \in {"pending", "confirmed", "cancelled"}
  /\ purchase_orders[last.id].status = "received"
  /\ LET lines == SelectPurchaseItems(purchase_order_items, last.id)
     IN /\ Len(lines) = 2
        /\ lines[1].product_id = lines[2].product_id
        /\ lines[1].received_quantity = lines[1].quantity

\* Quantity credited to product p on behalf of purchase order po: the 'in' /
\* 'purchase' movements written together with the stock updates, over the
\* first n rows of stock_movements.
RECURSIVE CreditedQty(_, _, _)
CreditedQty(po, p, n) ==
  IF n = 0 THEN 0
  ELSE (IF /\ stock_movements[n].reference_type = "purchase"
           /\ stock_movements[n].reference_id = po
           /\ stock_movements[n].product_id = p
        THEN stock_movements[n].quantity ELSE 0) + CreditedQty(po, p, n - 1)

\* C14: over any sequence of non-overlapping status patches on one purchase
\* order, the total added to a product's stock on behalf of that order never
\* exceeds the quantity the order has for the product (stated for the orders
\* whose quantity for the product is not negative).
CreditedOncePerPurchaseOrder ==
  \A po \in 1..Len(purchase_orders), p \in ProductIds :
    LET ordered == PurchaseQty(purchase_order_items, po, p, Len(purchase_order_items))
    IN ordered >= 0 => CreditedQty(po, p, Len(stock_movements)) <= ordered

\* C15 as stated: of two successive patches to 'received' on one purchase
\* order, the second issued right after the first has committed, the second
\* adds the items' quantities to the stock again.
SecondReceiveCreditsAgain ==
  [][\A id \in 1..Len(purchase_orders) :
       (/\ PatchPurchaseOrderStatus(id, "received")
        /\ last.op = "patch_po_status"
        /\ last.result = "updated"
        /\ last.id = id
        /\ last.prev # "received"
        /\ purchase_orders[id].status = "received") =>
         \A p \in ProductIds :
           products'[p].stock =
             products[p].stock
               + PurchaseQty(purchase_order_items, id, p, Len(purchase_order_items))]_vars

\* C15 as amended: a patch to 'received' on a purchase order that is already
\* 'received' changes no stock, no item and no movement; a purchase order that
\* was received and then patched to another status is credited its quantities
\* again by the next patch to 'received'.
ReceiveRepeatsOnlyAfterOtherStatus ==
  [][\A id \in 1..Len(purchase_orders) :
       PatchPurchaseOrderStatus(id, "received") =>
         IF purchase_orders[id].status = "received"
         THEN UNCHANGED <<products, purchase_order_items, stock_movements>>
         ELSE \A p \in ProductIds :
                products'[p].stock =
                  products[p].stock
                    + PurchaseQty(purchase_order_items, id, p, Len(purchase_order_items))
                /\ CreditedQty(id, p, Len(stock_movements))' =
                     CreditedQty(id, p, Len(stock_movements))
                       + PurchaseQty(purchase_order_items, id, p, Len(purchase_order_items))]_vars

ReceivedTwiceInSuccession ==
  /\ last.op = "patch_po_status"
  /\ last.result = "updated"
  /\ last.prev = "received"
  /\ purchase_orders[last.id].status = "received"
  /\ \E p \in ProductIds :
       /\ CreditedQty(last.id, p, Len(stock_movements)) > 0
       /\ CreditedQty(last.id, p, Len(stock_movements))
            = PurchaseQty(purchase_order_items, last.id, p, Len(purchase_order_items))

\* Totals of the orders of customer c that are not cancelled, and amounts of
\* its completed payments, over the first n rows of each table.
RECURSIVE OpenOrdersTotal(_, _)
OpenOrdersTotal(c, n) ==
  IF n = 0 THEN 0
  ELSE (IF orders[n].customer_id = c /\ orders[n].status # "cancelled"
        THEN orders[n].total ELSE 0) + OpenOrdersTotal(c, n - 1)

RECURSIVE CompletedPaymentsOf(_, _)
CompletedPaymentsOf(c, n) ==
  IF n = 0 THEN 0
  ELSE (IF payments[n].customer_id = c /\ payments[n].status = "completed"
        THEN payments[n].amount ELSE 0) + CompletedPaymentsOf(c, n - 1)

\* C16: the balance the customer list and the customer account return is (sum
\* of the totals of the customer's orders that are not cancelled) - (sum of the
\* customer's completed payments), whatever the stored balance column holds.
DerivedBalanceExcludesCancelled ==
  \A c \in CustomerIds :
    LET expected == OpenOrdersTotal(c, Len(orders)) - CompletedPaymentsOf(c, Len(payments))
    IN /\ ListBalance(c) = expected
       /\ AccountBalance(c) = expected

\* C17: the stored customers.balance column is changed only by the
\* adjust-balance request: order placement, order status changes, order
\* discount updates, payment creation, update and deletion and customer
\* profile updates leave every customer's stored balance as it was.
StoredBalanceFrame ==
  [][/\ (\/ CustomerOrderRequest
         \/ CustomerOrderStatusRequest
         \/ CustomerDiscountRequest
         \/ CustomerPaymentRequest
         \/ CustomerPaymentStatusRequest
         \/ CustomerPaymentDeleteRequest
         \/ CustomerProfileRequest) =>
          \A c \in CustomerIds : customers'[c].balance = customers[c].balance
     /\ (\E c \in CustomerIds : customers'[c].balance # customers[c].balance) =>
          BalanceRequest]_vars

ProfileUpdatedWithStoredBalance ==
  /\ last.op = "update_customer"
  /\ last.result = "updated"
  /\ customers[last.id].credit_limit = 500
  /\ customers[last.id].balance # 0
  /\ Len(payments) > 0
  /\ ListBalance(last.id) # customers[last.id].balance

RECURSIVE LedgerDelta(_, _)
LedgerDelta(p, n) ==
  IF n = 0 THEN 0
  ELSE (IF stock_movements[n].product_id # p THEN 0
        ELSE IF stock_movements[n].movement_type = "in" THEN stock_movements[n].quantity
        ELSE 0 - stock_movements[n].quantity)
       + LedgerDelta(p, n - 1)

CommitInstallsValueRead ==
  [][\A t \in Txns :
       ((CommitPlace(t) \/ CommitPatchOrder(t) \/ CommitPatchPurchaseOrder(t))
          /\ Len(txn[t].items) = 1) =>
         LET item == txn[t].items[1]
         IN products'[item.product_id].stock =
              IF txn[t].kind = "place" THEN txn[t].currentStock - item.quantity
              ELSE txn[t].currentStock + item.quantity]_vars

BothCommittedStockOffLedger ==
  \E p \in ProductIds, s \in InitStocks :
    /\ \A t \in Txns :
         /\ txn[t].result \in {"created", "updated"}
         /\ Len(txn[t].items) = 1 /\ txn[t].items[1].product_id = p
    /\ products[p].stock # s + LedgerDelta(p, Len(stock_movements))

\* C19: two overlapping payment creations against one order (or one invoice),
\* each within the remaining balance on its own and together above it, can
\* both pass the re-summed overpayment check and both commit, leaving the sum
\* of completed payments greater than the total.
\* The check of a payment adds its amount to the committed completed payments
\* of its target alone, whatever another creation in flight has inserted, and
\* a payment that has passed it is committed as a completed row without a
\* second check.
PaymentCheckSeesCommittedPaymentsOnly ==
  [][\A t \in Txns :
       /\ SumPaid(t) =>
            LET committed == IF txn[t].invoice_id # 0
                             THEN CompletedForInvoice(txn[t].invoice_id, Len(payments))
                             ELSE CompletedForOrder(txn[t].order_id, Len(payments))
            IN (txn'[t].result = "exceeds_balance")
                 = (committed + txn[t].amount > txn[t].totalToPay)
       /\ CommitPayment(t) =>
            /\ Len(payments') = Len(payments) + 1
            /\ payments'[Len(payments')].amount = txn[t].amount
            /\ payments'[Len(payments')].status = "completed"]_vars

BothPaymentsCommittedAboveTotal ==
  /\ \A t \in Txns : txn[t].kind = "pay" /\ txn[t].result = "created"
  /\ txn[1].currentlyPaid = txn[2].currentlyPaid
  /\ \/ /\ txn[1].invoice_id = 0 /\ txn[2].invoice_id = 0
        /\ txn[1].order_id = txn[2].order_id
        /\ CompletedForOrder(txn[1].order_id, Len(payments)) > orders[txn[1].order_id].total
     \/ /\ txn[1].invoice_id # 0 /\ txn[1].invoice_id = txn[2].invoice_id
        /\ CompletedForInvoice(txn[1].invoice_id, Len(payments))
             > invoices[txn[1].invoice_id].total
  /\ \A t \in Txns : txn[t].currentlyPaid + txn[t].amount <= txn[t].totalToPay
  /\ txn[1].currentlyPaid + txn[1].amount + txn[2].amount > txn[1].totalToPay

\* C21: two overlapping order creations can compute the same next order
\* number: the generator reads the highest existing ORD-### on a pool
\* connection outside the inserting transaction, and neither creation sees the
\* other's uncommitted order.
\* The number a creation computes is one more than the highest number among
\* the committed orders (1 when there is none), whatever another creation in
\* flight has computed or inserted.
CommittedOrderNumbers == {orders[k].order_number : k \in 1..Len(orders)}

OrderNumberFromCommittedOrdersOnly ==
  [][\A t \in Txns :
       (\E items \in RaceBodies : BeginPlace(t, items, 0)) =>
         txn'[t].orderNumber =
           IF CommittedOrderNumbers = {} THEN 1
           ELSE (CHOOSE m \in CommittedOrderNumbers :
                   \A n \in CommittedOrderNumbers : n <= m) + 1]_vars

SameOrderNumberComputedTwice ==
  /\ txn[1].kind = "place" /\ txn[1].pc \in {"read", "write", "commit"}
  /\ txn[2].kind = "place" /\ txn[2].pc = "check"
  /\ txn[1].orderNumber = txn[2].orderNumber

\* C22: deleting a customer is rejected, and the customer is left neither
\* deleted nor modified, whenever the customer has at least one order in
\* status pending or processing or has an outstanding balance, the balance
\* being the sum of the customer's order totals minus the sum of its
\* completed payments.
DeleteRejectedWhileOwing ==
  [][\A c \in CustomerIds :
       (/\ DeleteCustomer(c)
        /\ \/ \E k \in 1..Len(orders) :
                orders[k].customer_id = c /\ orders[k].status \in {"pending", "processing"}
           \/ OpenOrdersTotal(c, Len(orders)) - CompletedPaymentsOf(c, Len(payments)) # 0)
       => customers' = customers]_vars

\* C23: invoice items are fully replaced on update: after a successful
\* invoice update whose request carries an items list L, the invoice's
\* invoice_items are exactly the items of L and none of the previous items
\* remain, for every L including the empty list.
InvoiceItemsFullyReplaced ==
  [][\A id \in InvoiceIdInputs, paid_amount \in InvoicePaidAmounts, L \in InvoiceItemLists :
       (PutInvoice(id, 1, "pending", paid_amount, 100, TRUE, L) /\ last'.result = "updated")
       => SelectInvoiceItems(invoice_items', id) = InvoiceItemRows(L, id)]_vars

\* C24: SKU uniqueness is scoped to the products that are not soft-deleted: a
\* product create or update with SKU s is rejected as a duplicate if and only
\* if some other product that is not soft-deleted already has SKU s, so a SKU
\* held only by soft-deleted products is accepted.
SkuUniqueAmongLiveProducts ==
  [][\A sku \in SkuInputs \ {0} :
       /\ CreateProduct(sku, 200) =>
            ((last'.result = "duplicate_sku")
               = (\E p \in DOMAIN products : products[p].sku = sku /\ ~products[p].deleted))
       /\ \A id \in DOMAIN products :
            UpdateProduct(id, sku) =>
              ((last'.result = "duplicate_sku")
                 = (\E p \in DOMAIN products \ {id} :
                      products[p].sku = sku /\ ~products[p].deleted))]_vars

\* C25: every handler execution that issues BEGIN on a pooled connection
\* issues exactly one COMMIT or ROLLBACK on that connection before releasing
\* it, on every path including the not-found and validation early returns of
\* the order status patch, the purchase-order status patch and the stock
\* adjustment: no connection is returned to the pool with a transaction still
\* open.  Stated here for the requests that run statement by statement:
\* placement, the two status patches and payment creation.
NoConnectionReleasedOpen == \A t \in Txns : txn[t].pc = "done" => ~txn[t].open

\* C26: the stock counter agrees with the movement log: for every product,
\* after any sequence of non-overlapping placements, cancellations and
\* purchase-order receipts, stock = stock before the sequence + (sum of the
\* quantities of the 'in' movements appended during it) - (sum of the
\* quantities of the 'out' movements appended during it).
StockAgreesWithMovementLog ==
  \A p \in ProductIds :
    products[p].stock - LedgerDelta(p, Len(stock_movements)) \in InitStocks

SoldReturnedAndPurchased ==
  \E p \in ProductIds :
    \A reference_type \in {"sale", "return", "purchase"} :
      \E n \in 1..Len(stock_movements) :
        /\ stock_movements[n].product_id = p
        /\ stock_movements[n].reference_type = reference_type

\* C27: a committed order placement never leaves any product with more stock
\* than it had before the request, whatever quantities the request carried.
PlacementNeverIncreasesStock ==
  [][Len(orders') > Len(orders)
       => \A p \in ProductIds : products'[p].stock <= products[p].stock]_vars

\* C28: whatever the interleaving of the status patches of one order, the
\* order's items are put back into stock at most once: the log holds at most
\* one 'return' movement per item of the order.
OrderItemsRestoredAtMostOnce ==
  \A id \in 1..Len(orders) :
    Cardinality({n \in 1..Len(stock_movements) :
                   /\ stock_movements[n].reference_type = "return"
                   /\ stock_movements[n].reference_id = id})
      <= Len(OrderItemsOf(id))

\* C29: every invoice's stored paid_amount equals the sum of the completed
\* payments linked to that invoice.
PaidAmountIsCompletedPaymentSum ==
  \A id \in 1..Len(invoices) : invoices[id].paid_amount = PaidForInvoice(payments, id)

\* C30: when PUT /orders/:id changes an order's total through its discount,
\* the order's payment_status afterwards is the classification of its
\* completed payments against the new total.
DiscountKeepsPaymentStatusCorrect ==
  [][\A id \in 1..Len(orders) :
       (/\ last'.op = "update_order" /\ last'.result = "updated" /\ last'.id = id
        /\ orders'[id].total # orders[id].total)
         => orders'[id].payment_status
              = PaymentStatusFor(PaidForOrder(payments', id), orders'[id].total)]_vars

====
